---------------------------- MODULE Spec2Model ----------------------------
(***************************************************************************)
(* A model of the stache-tools client: the two transports (HTTP and        *)
(* direct Lambda invocation) behind the shared retry policy, the status-   *)
(* to-exception mapping, the StacheAPI facade, the CLI commands that own a *)
(* facade, the configuration / transport factory, the document loader     *)
(* registry, the ingest command, the exit status of the CLI commands and   *)
(* the identifier validation of the MCP tools.                             *)
(*                                                                         *)
(* Each subsystem has its own specification (SpecVerb, SpecFacade,         *)
(* SpecCommand, SpecConfig, SpecLoader, ...); the variables of the other   *)
(* subsystems stay at their initial value.                                 *)
(***************************************************************************)
EXTENDS Integers, Sequences, FiniteSets, TLC

VARIABLES
    \* ---- one transport object and the verb call in progress on it
    kind,             \* "http" | "lambda": the class of the transport object
    verb,             \* the verb of the call in progress ("none" when idle)
    pc,               \* "idle" | "attempt" | "done": position of the verb call
    log,              \* outcomes of the attempts of the current call, in order
    wire,             \* what the wire did in the latest attempt
    result,           \* what the verb call handed to its caller
    last_request_id,  \* HTTPTransport._last_request_id / LambdaTransport._last_request_id
    respRid,          \* history: request id carried by the latest received response
    gotResponse,      \* history: the current call received at least one response
    \* ---- one StacheAPI facade and the operation it ran last
    oauth_enabled,    \* StacheConfig.oauth_enabled of the facade's configuration
    fop,              \* the facade operation that ran last ("none" at first)
    freq,             \* the arguments it was called with
    sent,             \* the requests it handed to the transport, in order
    tcalls,           \* what each of those transport calls returned or raised
    fres,             \* what the operation returned or raised
    auth_status,      \* result["auth_status"] of health ("absent" when not set)
    \* ---- one CLI command and the facade it owns
    ccmd,             \* the command running ("none" before the first)
    cinput,           \* whether the command's JSON option parses / the prompt is confirmed
    cpc,              \* "start" | "ready" | "called" | "exited"
    cexit,            \* the exit path taken: "none" | "normal" | "validation" | "failure"
    hasApi,           \* the command has constructed its StacheAPI
    ckind,            \* the kind of transport that facade owns
    clientOpen,       \* HTTPTransport._client is not None
    clientsCreated,   \* httpx clients the transport has created
    clientCloses,     \* calls of close() on an httpx client
    closeCalls,       \* calls of StacheAPI.close() / transport.close()
    \* ---- one configuration and the transport made from it
    envMode,          \* STACHE_TRANSPORT as given
    envFn,            \* STACHE_LAMBDA_FUNCTION as given
    boto3_available,  \* BOTO3_AVAILABLE of lambda_transport
    cfgpc,            \* "env" | "config" | "invalid" | "made"
    config,           \* the StacheConfig constructed
    made,             \* what create_transport returned or raised
    \* ---- the loader registry once initialised, and the latest lookup
    loaders,          \* LoaderRegistry._loaders, in registration order
    extension_overrides,  \* LoaderRegistry._extension_overrides
    filename,         \* the file name of the latest get_loader call
    found,            \* what that call returned: None or <<loader>>
    \* ---- LoaderRegistry() called from several threads
    instance,         \* LoaderRegistry._instance: None or <<n>>, the n-th object created
    lock,             \* the thread that holds LoaderRegistry._lock (0 when free)
    objs,             \* the registry objects created, in order
    tpc,              \* where each thread is in __new__ / __init__
    tobj,             \* the object __new__ returned to each thread
    \* ---- one run of the ingest command over files
    iopts,            \* the options of the run: parallel, skip_errors, namespace, dry_run, yes
    files,            \* what collect_files returned
    outcome,          \* what ingesting each file leads to (fixed for the run)
    ipc,              \* "start" | "collected" | "seq" | "pool" | "cancelling" | "shutdown" | "exited"
    gate,             \* the local gate the run stopped at, "passed", or "none" so far
    counts,           \* success, failed, skipped, total_chunks of the orchestrating thread
    summaries,        \* the summaries printed, in order
    istatus,          \* the exit status (-1 while the command runs)
    attempted,        \* the files whose ingestion has started, in order of start
    task,             \* parallel run: "pending" | "running" | "done" | "cancelled" per file
    observed,         \* the files whose result the orchestrating thread has handled
    ci,               \* position of the cancellation pass in the list of futures
    facades,          \* StacheAPI objects constructed by the run
    extracted,        \* loader.load calls made by the run
    netcalls,         \* client.ingest_text calls made by the run
    listed,           \* files listed by the dry run
    pendingAtError,   \* history: the tasks not yet started when the first error was observed
    \* ---- one invocation of a subcommand and its exit status
    xcmd,             \* the subcommand invoked
    xinput,           \* its local input: "ok" | "bad_json" | "declined" | "missing"
    xjson,            \* --json given
    xbackend,         \* what its facade call comes to: "ok" | "unsuccessful" | "raises"
    xpc,              \* "start" | "invoked" | "constructed" | "exited"
    xprinted,         \* what the command printed last: "none" | "output" | "error"
    xstatus,          \* the exit status of the process (-1 while it runs)
    \* ---- one tool call handled by the MCP ToolHandler
    mtool,            \* the tool called
    margs,            \* its arguments
    mpc,              \* "idle" | "called" | "done"
    mresult,          \* "none" | "text" | "error": what the handler returned
    mcalls,           \* the facade calls made, each with the identifiers it was given
    mwire,            \* the identifiers the facade put in its requests
    \* ---- the MCP server: tool invocations in flight on the one ToolHandler
    scalls,           \* per invocation: where it is, the path it takes, its answer
    skind,            \* the kind of transport the handler's facade holds
    sclient,          \* HTTPTransport._client: 0 for None, else the client's number
    screated,         \* httpx clients created so far (numbered 1..screated)
    sopen,            \* the clients not closed
    sclosed,          \* handler.close() has returned
    \* ingest_file_worker
    wjobs,             \* file_args: the arguments of each task
    wpc,               \* where each task is
    wclient,           \* the StacheAPI each task constructed, 0 for none
    wmade,             \* how many StacheAPI instances were constructed
    wopen,             \* the StacheAPI instances constructed and not closed
    wused,             \* <<task, instance>> for each call made on a StacheAPI
    wsent,             \* the ingest_text call each task made, if any
    wresult,          \* what ingest_file returned to each task, if it did
    \* LambdaTransport._invoke and the payload stream
    presponse,         \* what self._lambda.invoke came to
    ppc,               \* where _invoke is
    pconsumed,         \* the StreamingBody of the response has been read
    preads,            \* how many times read() was called on it
    payload_bytes,     \* the bytes _invoke holds
    pout               \* the outcome of _invoke

verbVars == <<kind, verb, pc, log, wire, result, last_request_id, respRid, gotResponse>>

facadeVars == <<oauth_enabled, fop, freq, sent, tcalls, fres, auth_status>>

cmdVars ==
    <<ccmd, cinput, cpc, cexit, hasApi, ckind, clientOpen, clientsCreated,
      clientCloses, closeCalls>>

cfgVars == <<envMode, envFn, boto3_available, cfgpc, config, made>>

clientVars == <<verbVars, facadeVars, cmdVars, cfgVars>>

loaderVars == <<loaders, extension_overrides, filename, found>>

singletonVars ==
    <<instance, lock, objs, tpc, tobj>>

ingestVars ==
    <<iopts, files, outcome, ipc, gate, counts, summaries, istatus,
      attempted, task, observed, ci, facades, extracted, netcalls, listed,
      pendingAtError>>

exitVars ==
    <<xcmd, xinput, xjson, xbackend, xpc, xprinted, xstatus>>

mcpVars ==
    <<mtool, margs, mpc, mresult, mcalls, mwire>>

serverVars ==
    <<scalls, skind, sclient, screated, sopen, sclosed>>

workerVars ==
    <<wjobs, wpc, wclient, wmade, wopen, wused, wsent, wresult>>

invokeVars ==
    <<presponse, ppc, pconsumed, preads, payload_bytes, pout>>

toolVars == <<loaderVars, singletonVars, ingestVars, exitVars, mcpVars, serverVars, workerVars, invokeVars>>

besidesLoader == <<clientVars, singletonVars, ingestVars, exitVars, mcpVars, serverVars, workerVars, invokeVars>>

besidesSingleton == <<clientVars, loaderVars, ingestVars, exitVars, mcpVars, serverVars, workerVars, invokeVars>>

besidesIngest == <<clientVars, loaderVars, singletonVars, exitVars, mcpVars, serverVars, workerVars, invokeVars>>

besidesExit == <<clientVars, loaderVars, singletonVars, ingestVars, mcpVars, serverVars, workerVars, invokeVars>>

besidesMcp == <<clientVars, loaderVars, singletonVars, ingestVars, exitVars, serverVars, workerVars, invokeVars>>

besidesServer == <<clientVars, loaderVars, singletonVars, ingestVars, exitVars, mcpVars, workerVars, invokeVars>>

besidesWorker == <<clientVars, loaderVars, singletonVars, ingestVars, exitVars, mcpVars, serverVars, invokeVars>>

besidesInvoke == <<clientVars, loaderVars, singletonVars, ingestVars, exitVars, mcpVars, serverVars, workerVars>>

vars == <<clientVars, toolVars>>

---------------------------------------------------------------------------
(* Values *)

\* Python's None (an absent request id).
None == <<>>

\* Number of distinct request ids the backend hands out in the model.
MaxRequestIds == 2

RequestIds == {<<i>> : i \in 1..MaxRequestIds}

Verbs == {"get", "post", "put", "delete"}

\* Status codes the backend answers with: both sides of every boundary of
\* raise_for_status and of is_retryable_status_code.
StatusCodes == {200, 399, 400, 401, 402, 403, 404, 429, 499, 500, 503, 599, 600}

\* A key a JSON object lacks.
Missing == "Missing"

\* The statusCode of a Lambda envelope: an integer, absent, or not an integer.
StatusKinds == {"int", "missing", "nonint"}

\* A response body: a JSON object with or without request_id, valid JSON that
\* is not an object, text that is not JSON, or no body at all.
Bodies ==
    {[shape |-> "dict", rid |-> r] : r \in RequestIds \cup {None}}
    \cup {[shape |-> s, rid |-> None] : s \in {"list", "text", "absent"}}

\* Error codes of a botocore ClientError raised by invoke().
ClientErrorCodes ==
    {"ResourceNotFoundException", "AccessDeniedException",
     "TooManyRequestsException", "ServiceException",
     "ServiceUnavailableException", "InvalidRequestContentException"}

\* errorType / errorMessage of a function-error payload.
ErrorTypes == {Missing, "RuntimeError"}
ErrorMessages == {Missing, "boom"}

NoWire ==
    [ev |-> "none", skind |-> "int", status |-> 200, body |-> [shape |-> "absent", rid |-> None],
     code |-> "none", ferr |-> FALSE, pshape |-> "none",
     etype |-> Missing, emsg |-> Missing]

\* What httpx does with one request: raises ConnectError, TimeoutException or
\* another httpx error (ReadError, RemoteProtocolError, ...), or returns a
\* response.
HTTPWires ==
    {[NoWire EXCEPT !.ev = e] : e \in {"ConnectError", "TimeoutException", "OtherHTTPError"}}
    \cup {[NoWire EXCEPT !.ev = "Response", !.status = s, !.body = b] :
            s \in StatusCodes, b \in Bodies}

\* What boto3's invoke does: raises a ClientError with a code, raises another
\* botocore error (ReadTimeoutError, EndpointConnectionError, ...), or returns
\* a response whose Payload is an envelope {statusCode, body}, a function-error
\* document {errorType, errorMessage}, JSON that is not an object, or not JSON.
LambdaWires ==
    {[NoWire EXCEPT !.ev = "ClientError", !.code = c] : c \in ClientErrorCodes}
    \cup {[NoWire EXCEPT !.ev = "BotoCoreError"]}
    \cup {[NoWire EXCEPT !.ev = "Invoked", !.ferr = FALSE, !.pshape = "dict",
                         !.status = s, !.body = b] :
            s \in StatusCodes, b \in Bodies}
    \cup {[NoWire EXCEPT !.ev = "Invoked", !.ferr = FALSE, !.pshape = "dict",
                         !.skind = k, !.body = b] :
            k \in StatusKinds \ {"int"}, b \in Bodies}
    \cup {[NoWire EXCEPT !.ev = "Invoked", !.ferr = TRUE, !.pshape = "dict",
                         !.etype = t, !.emsg = m] :
            t \in ErrorTypes, m \in ErrorMessages}
    \cup {[NoWire EXCEPT !.ev = "Invoked", !.ferr = f, !.pshape = p] :
            f \in BOOLEAN, p \in {"list", "text"}}

---------------------------------------------------------------------------
(* Exceptions and the outcome of one attempt *)

\* An outcome is a returned payload ("ok") or a raised exception: the four
\* typed failures ("StacheConnectionError", "StacheAuthError",
\* "StacheNotFoundError", "StacheAPIError" with its status_code) or a raw
\* exception of a library ("httpx", "botocore", "json", "TypeError", ...).
Outcome(t, c, d) == [type |-> t, code |-> c, detail |-> d]

Ok == Outcome("ok", 0, <<>>)
StacheConnectionError == Outcome("StacheConnectionError", 0, <<>>)
StacheAuthError == Outcome("StacheAuthError", 0, <<>>)
StacheNotFoundError == Outcome("StacheNotFoundError", 0, <<>>)
StacheAPIError(c, d) == Outcome("StacheAPIError", c, d)
Raw(t) == Outcome(t, 0, <<>>)

NoResult == Outcome("none", 0, <<>>)

\* The attempt, call or operation raised.
Failed(o) == o.type # "ok"

TypedFailures ==
    {"StacheConnectionError", "StacheAuthError", "StacheNotFoundError", "StacheAPIError"}

\* raise_for_status with 403 left out of the auth branch.
raise_for_status_No403(c) ==
    IF c = 401 THEN StacheAuthError
    ELSE IF c = 404 THEN StacheNotFoundError
    ELSE IF c >= 400 THEN StacheAPIError(c, <<>>)
    ELSE Ok

\* raise_for_status(status_code, message, request_id): the exception raised,
\* or Ok when it returns without raising.
raise_for_status(c) ==
    IF c = 401 \/ c = 403 THEN StacheAuthError
    ELSE IF c = 404 THEN StacheNotFoundError
    ELSE IF c >= 400 THEN StacheAPIError(c, <<>>)
    ELSE Ok

---------------------------------------------------------------------------
(* Retry policy *)

\* stop_after_attempt(3): stop once this many attempts were made.
MaxAttempts == 3

\* The stop condition off by one: stops only after the attempt count is exceeded.
stop_after_attempt_OffByOne(n) == n > MaxAttempts

stop_after_attempt(n) == n >= MaxAttempts

\* reraise=True: when the policy stops, the last attempt's exception is raised
\* as it is; with reraise=False tenacity raises its own RetryError instead.
Reraise == TRUE

\* The 5xx test without its upper end.
is_retryable_status_code_NoUpperEnd(c) == c = 429 \/ c >= 500

is_retryable_status_code(c) == c = 429 \/ (500 =< c /\ c < 600)

is_retryable_api_error(o) ==
    IF o.type = "StacheAPIError" THEN is_retryable_status_code(o.code) ELSE FALSE

is_retryable_connection_error(o) == o.type = "StacheConnectionError"

\* _is_retryable_http(exception)
is_retryable_http(o) ==
    IF o.type \in {"httpx.ConnectError", "httpx.TimeoutException"} THEN TRUE
    ELSE IF is_retryable_connection_error(o) THEN TRUE
    ELSE IF is_retryable_api_error(o) THEN TRUE
    ELSE FALSE

\* _is_retryable_lambda(exception); o.detail holds the code of a ClientError.
is_retryable_lambda(o) ==
    IF is_retryable_connection_error(o) THEN TRUE
    ELSE IF is_retryable_api_error(o) THEN TRUE
    ELSE IF o.type = "botocore.ClientError"
        THEN o.detail \in {<<"TooManyRequestsException">>, <<"ServiceException">>,
                           <<"ServiceUnavailableException">>}
    ELSE FALSE

is_retryable(k, o) == IF k = "http" THEN is_retryable_http(o) ELSE is_retryable_lambda(o)

---------------------------------------------------------------------------
(* HTTP transport *)

\* HTTPTransport._extract_request_id(response)
extract_request_id(b) == IF b.shape = "dict" THEN b.rid ELSE None

\* HTTPTransport._handle_response(response): the outcome (the request id is
\* set by the action).
http_handle_response(w) ==
    IF w.status >= 400
        THEN raise_for_status(w.status)
        ELSE IF w.body.shape \in {"dict", "list"} THEN Ok ELSE Raw("json.JSONDecodeError")

\* The body of HTTPTransport.get/post/put/delete: one attempt.
http_attempt(w) ==
    CASE w.ev = "ConnectError" -> StacheConnectionError
      [] w.ev = "TimeoutException" -> StacheConnectionError
      [] w.ev = "OtherHTTPError" -> Raw("httpx.HTTPError")
      [] OTHER -> http_handle_response(w)

http_request_id(w, old) ==
    IF w.ev = "Response" THEN extract_request_id(w.body) ELSE old

---------------------------------------------------------------------------
(* Lambda transport *)

\* LambdaTransport._handle_response(payload): the request id it leaves in
\* _last_request_id.  body or "{}" parses to an object, to other JSON (the id
\* is left as it was) or fails to parse (the id is cleared).
lambda_body_request_id(b, old) ==
    CASE b.shape = "dict" -> b.rid
      [] b.shape = "absent" -> None
      [] b.shape = "list" -> old
      [] OTHER -> None

\* LambdaTransport._handle_response(payload): the outcome.
lambda_handle_response(w) ==
    LET status_code == IF w.skind = "missing" THEN 200 ELSE w.status
    IN  IF w.skind = "nonint" THEN Raw("TypeError")
        ELSE IF status_code >= 400 THEN raise_for_status(status_code)
        ELSE Ok

\* The except ClientError branch of LambdaTransport._invoke.
lambda_client_error(code) ==
    IF code = "ResourceNotFoundException" THEN StacheConnectionError
    ELSE IF code = "AccessDeniedException" THEN StacheAuthError
    ELSE IF code \in {"TooManyRequestsException", "ServiceException"}
        THEN StacheAPIError(503, <<>>)
    ELSE StacheConnectionError

\* The FunctionError branch of LambdaTransport._invoke.
lambda_function_error(w) ==
    LET error_msg == IF w.emsg = Missing THEN "Unknown Lambda error" ELSE w.emsg
        error_type == IF w.etype = Missing THEN "Error" ELSE w.etype
    IN  StacheAPIError(500, <<"Lambda execution error", error_type, error_msg>>)

\* LambdaTransport._invoke: one attempt.
lambda_invoke(w) ==
    CASE w.ev = "ClientError" -> lambda_client_error(w.code)
      [] w.ev = "BotoCoreError" -> Raw("botocore.BotoCoreError")
      [] w.ev = "Invoked" /\ w.pshape = "text" -> Raw("json.JSONDecodeError")
      [] w.ev = "Invoked" /\ w.pshape = "list" -> Raw("AttributeError")
      [] w.ev = "Invoked" /\ w.pshape = "dict" /\ w.ferr -> lambda_function_error(w)
      [] OTHER -> lambda_handle_response(w)

lambda_request_id(w, old) ==
    IF w.ev = "Invoked" /\ w.pshape = "dict" /\ ~w.ferr
        THEN lambda_body_request_id(w.body, old)
        ELSE old

---------------------------------------------------------------------------
(* A verb call under the retry decorator *)

\* A response came back from the backend (whatever it held).
ReceivedResponse(w) == w.ev \in {"Response", "Invoked"}

\* The request id the response's JSON body carries, None when it carries none.
ResponseRid(k, w) ==
    IF k = "http" THEN (IF w.body.shape = "dict" THEN w.body.rid ELSE None)
    ELSE IF w.pshape = "dict" /\ ~w.ferr /\ w.body.shape = "dict" THEN w.body.rid
    ELSE None

VerbStart(k) ==
    /\ kind = k
    /\ verb = "none"
    /\ pc = "idle"
    /\ log = <<>>
    /\ wire = NoWire
    /\ result = NoResult
    /\ last_request_id = None
    /\ respRid = None
    /\ gotResponse = FALSE

VerbInit == \E k \in {"http", "lambda"} : VerbStart(k)

\* The caller invokes transport.get / post / put / delete.
StartCall ==
    /\ pc = "idle"
    /\ \E v \in Verbs : verb' = v
    /\ pc' = "attempt"
    /\ log' = <<>>
    /\ wire' = NoWire
    /\ result' = NoResult
    /\ gotResponse' = FALSE
    /\ UNCHANGED <<kind, last_request_id, respRid>>
    /\ UNCHANGED <<facadeVars, cmdVars, cfgVars, toolVars>>

\* tenacity after an attempt with outcome o, the n-th of the call: return the
\* value, raise a failure that is not retryable, raise the last failure when
\* the policy stops, or sleep and attempt again.
AfterAttempt(o, n) ==
    IF o.type = "ok" THEN /\ pc' = "done" /\ result' = o
    ELSE IF ~is_retryable(kind, o) THEN /\ pc' = "done" /\ result' = o
    ELSE IF stop_after_attempt(n)
        THEN /\ pc' = "done"
             /\ result' = IF Reraise THEN o ELSE Raw("tenacity.RetryError")
    ELSE /\ pc' = "attempt" /\ result' = NoResult

\* One attempt of a verb of HTTPTransport.
HTTPAttempt ==
    /\ pc = "attempt"
    /\ kind = "http"
    /\ \E w \in HTTPWires :
        LET o == http_attempt(w)
        IN  /\ wire' = w
            /\ log' = Append(log, o)
            /\ last_request_id' = http_request_id(w, last_request_id)
            /\ respRid' = IF ReceivedResponse(w) THEN ResponseRid("http", w) ELSE respRid
            /\ gotResponse' = (gotResponse \/ ReceivedResponse(w))
            /\ AfterAttempt(o, Len(log) + 1)
    /\ UNCHANGED <<kind, verb>>
    /\ UNCHANGED <<facadeVars, cmdVars, cfgVars, toolVars>>

\* One attempt of a verb of LambdaTransport.
LambdaAttempt ==
    /\ pc = "attempt"
    /\ kind = "lambda"
    /\ \E w \in LambdaWires :
        LET o == lambda_invoke(w)
        IN  /\ wire' = w
            /\ log' = Append(log, o)
            /\ last_request_id' = lambda_request_id(w, last_request_id)
            /\ respRid' = IF ReceivedResponse(w) THEN ResponseRid("lambda", w) ELSE respRid
            /\ gotResponse' = (gotResponse \/ ReceivedResponse(w))
            /\ AfterAttempt(o, Len(log) + 1)
    /\ UNCHANGED <<kind, verb>>
    /\ UNCHANGED <<facadeVars, cmdVars, cfgVars, toolVars>>

\* The caller has the value or the exception; the transport is idle again.
Return ==
    /\ pc = "done"
    /\ pc' = "idle"
    /\ verb' = "none"
    /\ UNCHANGED <<kind, log, wire, result, last_request_id, respRid, gotResponse>>
    /\ UNCHANGED <<facadeVars, cmdVars, cfgVars, toolVars>>

VerbNext == StartCall \/ HTTPAttempt \/ LambdaAttempt \/ Return

---------------------------------------------------------------------------
(* StacheAPI facade *)

\* A text by its code points: how many encode to 1, 2, 3 and 4 bytes of UTF-8.
Text(a, b, c, d) == [w1 |-> a, w2 |-> b, w3 |-> c, w4 |-> d]

NoText == Text(0, 0, 0, 0)

\* len(text): the number of code points.
text_len(t) == t.w1 + t.w2 + t.w3 + t.w4

\* len(text.encode("utf-8"))
utf8_len(t) == t.w1 + 2 * t.w2 + 3 * t.w3 + 4 * t.w4

\* Texts around the size cap: ASCII just below, at and above 10 MiB, alone or
\* with a few or many multi-byte code points.
Texts ==
    {Text(a, b, c, d) :
        a \in {0, 1, 10485757, 10485758, 10485759, 10485760, 10485761},
        b \in {0, 1, 5242880},
        c \in {0, 1},
        d \in {0, 1, 2621440}}

\* Requested top_k and limit values, around the caps 50 and 100.
MaxRequested == 102

Requested == {-1, 0, 1, 20} \cup (49..51) \cup (99..MaxRequested)

\* The size test of ingest_text taken on the code points instead of the bytes.
text_too_large_Chars(t) == text_len(t) > 10 * 1024 * 1024

\* ingest_text: len(text.encode("utf-8")) > 10 * 1024 * 1024
text_too_large(t) == utf8_len(t) > 10 * 1024 * 1024

Min(a, b) == IF a < b THEN a ELSE b

\* The request a facade operation hands to its transport: verb, path and the
\* fields the caps are about (top_k or limit in n, the text).
Request(v, p, n, t) == [verb |-> v, path |-> p, n |-> n, text |-> t]

\* The arguments of a facade operation that the model follows.
Args(n, t, flag) == [n |-> n, text |-> t, include_auth |-> flag]

NoArgs == Args(0, NoText, FALSE)

\* What a verb call of the transport hands the facade once its retries are
\* over: the payload, a typed failure, or an exception it did not convert.
TransportResults ==
    {Ok, StacheConnectionError, StacheAuthError, StacheNotFoundError,
     Raw("json.JSONDecodeError")}
    \cup {StacheAPIError(c, <<>>) : c \in {400, 429, 500, 503}}

ValueError == Raw("ValueError")
FileNotFoundError == Raw("FileNotFoundError")

\* The operations that only shape a request and return the transport's answer.
SimpleOps ==
    {[op |-> "list_namespaces", verb |-> "get", path |-> "/api/namespaces"],
     [op |-> "create_namespace", verb |-> "post", path |-> "/api/namespaces"],
     [op |-> "get_namespace", verb |-> "get", path |-> "/api/namespaces/{id}"],
     [op |-> "update_namespace", verb |-> "put", path |-> "/api/namespaces/{id}"],
     [op |-> "delete_namespace", verb |-> "delete", path |-> "/api/namespaces/{id}"],
     [op |-> "get_document", verb |-> "get", path |-> "/api/documents/id/{doc_id}"],
     [op |-> "delete_document", verb |-> "delete", path |-> "/api/documents/id/{doc_id}"],
     [op |-> "list_models", verb |-> "get", path |-> "/api/models"]}

FacadeStart(oauth) ==
    /\ oauth_enabled = oauth
    /\ fop = "none"
    /\ freq = NoArgs
    /\ sent = <<>>
    /\ tcalls = <<>>
    /\ fres = NoResult
    /\ auth_status = "absent"

FacadeInit == \E b \in BOOLEAN : FacadeStart(b)

\* An operation that issues one transport call and returns what it returns.
OneCall(op, args, req, r) ==
    /\ fop' = op
    /\ freq' = args
    /\ sent' = <<req>>
    /\ tcalls' = <<r>>
    /\ fres' = r
    /\ auth_status' = "absent"
    /\ UNCHANGED oauth_enabled

\* An operation that fails locally with exception e before any transport call.
NoCall(op, args, e) ==
    /\ fop' = op
    /\ freq' = args
    /\ sent' = <<>>
    /\ tcalls' = <<>>
    /\ fres' = e
    /\ auth_status' = "absent"
    /\ UNCHANGED oauth_enabled

\* StacheAPI.search
FacadeSearch ==
    /\ \E top_k \in Requested, r \in TransportResults :
        OneCall("search", Args(top_k, NoText, FALSE),
                Request("post", "/api/query", Min(top_k, 50), NoText), r)
    /\ UNCHANGED <<verbVars, cmdVars, cfgVars, toolVars>>

\* StacheAPI.ingest_text
FacadeIngestText ==
    /\ \E text \in Texts, r \in TransportResults :
        IF text_too_large(text)
            THEN NoCall("ingest_text", Args(0, text, FALSE), ValueError)
            ELSE OneCall("ingest_text", Args(0, text, FALSE),
                         Request("post", "/api/capture", 0, text), r)
    /\ UNCHANGED <<verbVars, cmdVars, cfgVars, toolVars>>

\* StacheAPI.list_documents
FacadeListDocuments ==
    /\ \E limit \in Requested, r \in TransportResults :
        OneCall("list_documents", Args(limit, NoText, FALSE),
                Request("get", "/api/documents", Min(limit, 100), NoText), r)
    /\ UNCHANGED <<verbVars, cmdVars, cfgVars, toolVars>>

\* StacheAPI.list_namespaces, create_namespace, get_namespace, update_namespace,
\* delete_namespace, get_document, delete_document, list_models
FacadeSimple ==
    /\ \E o \in SimpleOps, r \in TransportResults :
        OneCall(o.op, NoArgs, Request(o.verb, o.path, 0, NoText), r)
    /\ UNCHANGED <<verbVars, cmdVars, cfgVars, toolVars>>

\* StacheAPI.upload
FacadeUpload ==
    /\ \E exists \in BOOLEAN, r \in TransportResults :
        IF ~exists
            THEN NoCall("upload", NoArgs, FileNotFoundError)
            ELSE OneCall("upload", NoArgs, Request("post", "/api/upload", 0, NoText), r)
    /\ UNCHANGED <<verbVars, cmdVars, cfgVars, toolVars>>

\* health with the first call inside the try block as well.
health_outcome_TryAll(r1, probe, r2) ==
    IF Failed(r1) THEN [res |-> Ok, calls |-> <<r1>>, auth |-> "failed"]
    ELSE IF probe
        THEN [res |-> r1, calls |-> <<r1, r2>>,
              auth |-> IF Failed(r2) THEN "failed" ELSE "valid"]
    ELSE [res |-> r1, calls |-> <<r1>>, auth |-> "absent"]

\* StacheAPI.health: r1 is what get("/health") gives, probe whether the
\* authentication probe runs, r2 what get("/api/namespaces") gives then.
health_outcome(r1, probe, r2) ==
    IF Failed(r1) THEN [res |-> r1, calls |-> <<r1>>, auth |-> "absent"]
    ELSE IF probe
        THEN [res |-> r1, calls |-> <<r1, r2>>,
              auth |-> IF Failed(r2) THEN "failed" ELSE "valid"]
    ELSE [res |-> r1, calls |-> <<r1>>, auth |-> "absent"]

\* StacheAPI.health
FacadeHealth ==
    /\ \E include_auth \in BOOLEAN, r1 \in TransportResults, r2 \in TransportResults :
        LET probe == include_auth /\ oauth_enabled
            h == health_outcome(r1, probe, r2)
        IN  /\ fop' = "health"
            /\ freq' = Args(0, NoText, include_auth)
            /\ sent' = IF Len(h.calls) = 2
                          THEN <<Request("get", "/health", 0, NoText),
                                 Request("get", "/api/namespaces", 1, NoText)>>
                          ELSE <<Request("get", "/health", 0, NoText)>>
            /\ tcalls' = h.calls
            /\ fres' = h.res
            /\ auth_status' = h.auth
    /\ UNCHANGED oauth_enabled
    /\ UNCHANGED <<verbVars, cmdVars, cfgVars, toolVars>>

FacadeNext ==
    \/ FacadeSearch
    \/ FacadeIngestText
    \/ FacadeListDocuments
    \/ FacadeSimple
    \/ FacadeUpload
    \/ FacadeHealth

---------------------------------------------------------------------------
(* CLI commands and the facade each one owns *)

\* How a command is laid out around its facade:
\*   check   "none"   - no local check that returns early
\*           "before" - the JSON option is parsed, or the deletion confirmed,
\*                      before StacheAPI() is constructed
\*           "after"  - the JSON option is parsed after StacheAPI() is
\*                      constructed and before the try block is entered
\*   guard   "finally" - try: ... finally: api.close()
\*           "with"    - with StacheAPI() as api: ...
Commands ==
    {[name |-> "search", check |-> "after", guard |-> "finally"],
     [name |-> "health", check |-> "none", guard |-> "finally"],
     [name |-> "models", check |-> "none", guard |-> "finally"],
     [name |-> "doc list", check |-> "none", guard |-> "finally"],
     [name |-> "doc get", check |-> "none", guard |-> "finally"],
     [name |-> "doc delete", check |-> "before", guard |-> "finally"],
     [name |-> "namespace list", check |-> "none", guard |-> "with"],
     [name |-> "namespace get", check |-> "none", guard |-> "with"],
     [name |-> "namespace create", check |-> "before", guard |-> "with"],
     [name |-> "namespace update", check |-> "before", guard |-> "with"],
     [name |-> "namespace delete", check |-> "before", guard |-> "with"],
     [name |-> "ingest --text", check |-> "before", guard |-> "with"]}

NoCommand == [name |-> "none", check |-> "none", guard |-> "none"]

\* Calls of close() made on a facade after its command is over, to exercise
\* the release more than once.
MaxExtraCloses == 2

CmdStart ==
    /\ ccmd = NoCommand
    /\ cinput = "valid"
    /\ cpc = "start"
    /\ cexit = "none"
    /\ hasApi = FALSE
    /\ ckind = "none"
    /\ clientOpen = FALSE
    /\ clientsCreated = 0
    /\ clientCloses = 0
    /\ closeCalls = 0

\* The user runs a command; input says whether its JSON option parses (or its
\* prompt is confirmed).
CmdBegin ==
    /\ cpc = "start"
    /\ ccmd = NoCommand
    /\ \E c \in Commands, input \in {"valid", "invalid"} :
        /\ ccmd' = c
        /\ cinput' = input
    /\ UNCHANGED <<cpc, cexit, hasApi, ckind, clientOpen, clientsCreated,
                   clientCloses, closeCalls>>
    /\ UNCHANGED <<verbVars, facadeVars, cfgVars, toolVars>>

\* A local check placed before the facade is constructed fails: the command
\* returns (or aborts) without having created a transport.
CmdRejectBefore ==
    /\ cpc = "start"
    /\ ccmd # NoCommand
    /\ ccmd.check = "before"
    /\ cinput = "invalid"
    /\ cpc' = "exited"
    /\ cexit' = "validation"
    /\ UNCHANGED <<ccmd, cinput, hasApi, ckind, clientOpen, clientsCreated,
                   clientCloses, closeCalls>>
    /\ UNCHANGED <<verbVars, facadeVars, cfgVars, toolVars>>

\* api = StacheAPI(): the facade creates its transport.  HTTPTransport creates
\* its httpx client lazily; LambdaTransport holds a boto3 client that needs no
\* closing.
CmdConstruct ==
    /\ cpc = "start"
    /\ ccmd # NoCommand
    /\ ccmd.check = "before" => cinput = "valid"
    /\ \E k \in {"http", "lambda"} : ckind' = k
    /\ hasApi' = TRUE
    /\ cpc' = "ready"
    /\ UNCHANGED <<ccmd, cinput, cexit, clientOpen, clientsCreated, clientCloses,
                   closeCalls>>
    /\ UNCHANGED <<verbVars, facadeVars, cfgVars, toolVars>>

\* A local check placed after the construction and outside the try block
\* fails: the command returns from there.
CmdRejectAfter ==
    /\ cpc = "ready"
    /\ ccmd.check = "after"
    /\ cinput = "invalid"
    /\ cpc' = "exited"
    /\ cexit' = "validation"
    /\ UNCHANGED <<ccmd, cinput, hasApi, ckind, clientOpen, clientsCreated,
                   clientCloses, closeCalls>>
    /\ UNCHANGED <<verbVars, facadeVars, cfgVars, toolVars>>

\* HTTPTransport.client: the httpx client is created on first use.
client_created(k, open) == k = "http" /\ ~open

\* Inside the try / with block the command calls its facade operation, which
\* runs a verb of the transport; it returns or raises.
CmdCall ==
    /\ cpc = "ready"
    /\ ccmd.check = "after" => cinput = "valid"
    /\ \E r \in TransportResults \cup {ValueError} :
        \* only ingest_text fails locally, before it uses the transport
        /\ (r = ValueError) => ccmd.name = "ingest --text"
        /\ cexit' = IF Failed(r) THEN "failure" ELSE "normal"
        /\ clientsCreated' = IF r # ValueError /\ client_created(ckind, clientOpen)
                                THEN clientsCreated + 1 ELSE clientsCreated
        /\ clientOpen' = IF r # ValueError THEN ckind = "http" ELSE clientOpen
    /\ cpc' = "called"
    /\ UNCHANGED <<ccmd, cinput, hasApi, ckind, clientCloses, closeCalls>>
    /\ UNCHANGED <<verbVars, facadeVars, cfgVars, toolVars>>

\* StacheAPI.close() -> transport.close().  HTTPTransport.close closes the
\* client it holds, if any, and forgets it; LambdaTransport.close does nothing.
Close ==
    /\ closeCalls' = closeCalls + 1
    /\ clientCloses' = IF ckind = "http" /\ clientOpen
                          THEN clientCloses + 1 ELSE clientCloses
    /\ clientOpen' = FALSE

\* The finally clause, or StacheAPI.__exit__, on the way out of the block.
CmdRelease ==
    /\ cpc = "called"
    /\ Close
    /\ cpc' = "exited"
    /\ UNCHANGED <<ccmd, cinput, cexit, hasApi, ckind, clientsCreated>>
    /\ UNCHANGED <<verbVars, facadeVars, cfgVars, toolVars>>

\* close() called again on a facade whose command is over.
CmdCloseAgain ==
    /\ cpc = "exited"
    /\ hasApi
    /\ closeCalls >= 1
    /\ closeCalls =< MaxExtraCloses
    /\ Close
    /\ UNCHANGED <<ccmd, cinput, cpc, cexit, hasApi, ckind, clientsCreated>>
    /\ UNCHANGED <<verbVars, facadeVars, cfgVars, toolVars>>

CmdNext ==
    \/ CmdBegin
    \/ CmdRejectBefore
    \/ CmdConstruct
    \/ CmdRejectAfter
    \/ CmdCall
    \/ CmdRelease
    \/ CmdCloseAgain

---------------------------------------------------------------------------
(* Configuration and transport factory *)

\* An optional string: None or Some(s).
Some(s) == <<s>>

\* Python truthiness of an optional string: None and "" are false.
Truthy(v) == v # None /\ v[1] # ""

\* Values of STACHE_TRANSPORT tried.
EnvModes == {"auto", "http", "lambda", "AUTO", "Http", "LAMBDA", "grpc", ""}

\* Values of STACHE_LAMBDA_FUNCTION tried: unset, empty, a name, an ARN.
EnvFunctions ==
    {None, Some(""), Some("stache-api"),
     Some("arn:aws:lambda:us-east-1:123456789012:function:stache-api")}

\* str.lower on the mode strings.
Lower(s) ==
    CASE s \in {"auto", "AUTO"} -> "auto"
      [] s \in {"http", "Http"} -> "http"
      [] s \in {"lambda", "LAMBDA"} -> "lambda"
      [] OTHER -> s

NoConfig == [transport |-> "none", lambda_function_name |-> None]

\* resolved_transport that lets a configured function win over an explicit mode.
resolved_transport_FunctionWins(c) ==
    IF Truthy(c.lambda_function_name) THEN "lambda"
    ELSE IF c.transport # "auto" THEN c.transport
    ELSE "http"

\* StacheConfig.resolved_transport
resolved_transport(c) ==
    IF c.transport # "auto" THEN c.transport
    ELSE IF Truthy(c.lambda_function_name) THEN "lambda"
    ELSE "http"

\* StacheConfig.validate_config: the exception it raises, "ok" when none.
validate_config(c) ==
    IF resolved_transport(c) = "lambda" /\ ~Truthy(c.lambda_function_name)
        THEN "ValueError"
        ELSE "ok"

\* create_transport(config): the kind of the transport returned, or the
\* exception raised (by validate_config, or by LambdaTransport.__init__ when
\* boto3 is not installed).
create_transport(c, boto3) ==
    IF validate_config(c) # "ok" THEN validate_config(c)
    ELSE IF resolved_transport(c) = "lambda"
        THEN (IF boto3 THEN "lambda" ELSE "ImportError")
    ELSE "http"

CfgStart(m, f, b) ==
    /\ envMode = m
    /\ envFn = f
    /\ boto3_available = b
    /\ cfgpc = "env"
    /\ config = NoConfig
    /\ made = "none"

CfgInit == \E m \in EnvModes, f \in EnvFunctions, b \in BOOLEAN : CfgStart(m, f, b)

\* StacheConfig(): validate_transport lower-cases the mode and rejects any
\* that is not http, lambda or auto.
ConstructConfig ==
    /\ cfgpc = "env"
    /\ IF Lower(envMode) \in {"http", "lambda", "auto"}
          THEN /\ config' = [transport |-> Lower(envMode), lambda_function_name |-> envFn]
               /\ cfgpc' = "config"
          ELSE /\ config' = NoConfig
               /\ cfgpc' = "invalid"
    /\ UNCHANGED <<envMode, envFn, boto3_available, made>>
    /\ UNCHANGED <<verbVars, facadeVars, cmdVars, toolVars>>

\* create_transport(config)
CreateTransport ==
    /\ cfgpc = "config"
    /\ made' = create_transport(config, boto3_available)
    /\ cfgpc' = "made"
    /\ UNCHANGED <<envMode, envFn, boto3_available, config>>
    /\ UNCHANGED <<verbVars, facadeVars, cmdVars, toolVars>>

\* The environment changes and a new configuration is about to be read.
Reconfigure ==
    /\ cfgpc \in {"made", "invalid"}
    /\ \E m \in EnvModes, f \in EnvFunctions :
        /\ envMode' = m
        /\ envFn' = f
    /\ cfgpc' = "env"
    /\ config' = NoConfig
    /\ made' = "none"
    /\ UNCHANGED boto3_available
    /\ UNCHANGED <<verbVars, facadeVars, cmdVars, toolVars>>

CfgNext == ConstructConfig \/ CreateTransport \/ Reconfigure

---------------------------------------------------------------------------
(* Document loaders and the loader registry *)

\* File names, extensions and environment keys are strings, modelled as
\* sequences of characters.
LowerChar(c) ==
    CASE c = "P" -> "p"
      [] c = "D" -> "d"
      [] c = "F" -> "f"
      [] c = "T" -> "t"
      [] c = "X" -> "x"
      [] c = "M" -> "m"
      [] OTHER -> c

\* str.lower()
LowerStr(s) == [i \in 1..Len(s) |-> LowerChar(s[i])]

\* str.endswith(suffix)
EndsWith(s, suffix) ==
    /\ Len(suffix) =< Len(s)
    /\ SubSeq(s, Len(s) - Len(suffix) + 1, Len(s)) = suffix

\* "." in s
HasDot(s) == \E i \in 1..Len(s) : s[i] = "."

\* s.split(".")[-1]: what follows the last dot of s.
LastSegment(s) ==
    LET dots == {i \in 1..Len(s) : s[i] = "."}
        last == CHOOSE i \in dots : \A j \in dots : j =< i
    IN  IF dots = {} THEN s ELSE SubSeq(s, last + 1, Len(s))

\* type(loader).__name__.lower() and override_name.lower(), on the class names
\* and override values of the model.
LowerName(n) ==
    CASE n \in {"TextLoader", "textloader", "TEXTLOADER"} -> "textloader"
      [] n \in {"BasicPDFLoader", "basicpdfloader"} -> "basicpdfloader"
      [] n \in {"OcrPdfLoader", "ocrpdfloader", "OCRPDFLOADER"} -> "ocrpdfloader"
      [] n = "MarkdownLoader" -> "markdownloader"
      [] n = "DocxLoader" -> "docxloader"
      [] n = "PptxLoader" -> "pptxloader"
      [] n = "EpubLoader" -> "epubloader"
      [] n = "OcrImageLoader" -> "ocrimageloader"
      [] n = "ScanLoader" -> "scanloader"
      [] n = "NoSuchLoader" -> "nosuchloader"
      [] OTHER -> n

\* A loader object: its class name, its extensions and its priority.
Loader(n, exts, p) == [name |-> n, extensions |-> exts, priority |-> p]

\* LoaderRegistry._load_builtin: the built-in loaders in registration order,
\* all of the default priority 0.
BuiltinLoaders ==
    << Loader("TextLoader", {<<".", "t", "x", "t">>}, 0),
       Loader("MarkdownLoader",
              {<<".", "m", "d">>, <<".", "m", "a", "r", "k", "d", "o", "w", "n">>}, 0),
       Loader("BasicPDFLoader", {<<".", "p", "d", "f">>}, 0),
       Loader("DocxLoader", {<<".", "d", "o", "c", "x">>}, 0),
       Loader("PptxLoader", {<<".", "p", "p", "t", "x">>}, 0),
       Loader("EpubLoader", {<<".", "e", "p", "u", "b">>}, 0) >>

\* Loaders registered on top of the built-in ones: the two OCR loaders of
\* loaders/ocr.py and a plugin that declares its extension in upper case.
PluginLoaders ==
    { Loader("OcrPdfLoader", {<<".", "p", "d", "f">>}, 10),
      Loader("OcrImageLoader", {<<".", "p", "n", "g">>, <<".", "j", "p", "g">>}, 5),
      Loader("ScanLoader", {<<".", "P", "D", "F">>, <<".", "T", "X", "T">>}, 20) }

\* STACHE_LOADER_<KEY> = <value> entries of the environment tried.
EnvOverrides ==
    { [key |-> <<"P", "D", "F">>, value |-> "OcrPdfLoader"],
      [key |-> <<"P", "D", "F">>, value |-> "basicpdfloader"],
      [key |-> <<"p", "d", "f">>, value |-> "TEXTLOADER"],
      [key |-> <<"P", "D", "F">>, value |-> "NoSuchLoader"],
      [key |-> <<"T", "X", "T">>, value |-> "OCRPDFLOADER"],
      [key |-> <<"x", "y", "z">>, value |-> "TextLoader"] }

\* The environments tried: no entry, one entry, or the PDF and the TXT entry
\* that both name OcrPdfLoader.
Environments ==
    {{}} \cup {{e} : e \in EnvOverrides}
         \cup {{e \in EnvOverrides : LowerName(e.value) = "ocrpdfloader"}}

\* LoaderRegistry._load_overrides: ext = "." + key[14:].lower() -> value
load_overrides(env) == {[ext |-> <<".">> \o LowerStr(e.key), name |-> e.value] : e \in env}

\* File names asked for: stems with the spellings of several extensions, and a
\* name without a dot that ends like an extension.
Stems == {<<>>, <<"r", "e", "p", "o", "r", "t">>}

Suffixes ==
    { <<>>, <<".">>, <<".", "p", "d", "f">>, <<".", "P", "D", "F">>, <<".", "P", "d", "f">>,
      <<".", "t", "x", "t">>, <<".", "T", "X", "T">>, <<".", "m", "d">>,
      <<".", "m", "a", "r", "k", "d", "o", "w", "n">>, <<".", "p", "n", "g">>,
      <<".", "x", "y", "z">>, <<".", "p", "d", "f", ".", "b", "a", "k">> }

Filenames == {s \o x : s \in Stems, x \in Suffixes} \cup {<<"p", "d", "f">>}

\* DocumentLoader.can_handle that compares the extension as it is spelled.
can_handle_CaseSensitive(ldr, name) ==
    \E ext \in ldr.extensions : EndsWith(name, ext)

\* DocumentLoader.can_handle
can_handle(ldr, name) ==
    \E ext \in ldr.extensions : EndsWith(LowerStr(name), LowerStr(ext))

\* max(candidates, key=priority): the first of the candidates of greatest
\* priority, in list order.
max_priority(candidates) ==
    LET best == CHOOSE i \in 1..Len(candidates) :
                    /\ \A j \in 1..Len(candidates) :
                          candidates[j].priority =< candidates[i].priority
                    /\ \A j \in 1..(i - 1) :
                          candidates[j].priority < candidates[i].priority
    IN  candidates[best]

\* LoaderRegistry.get_loader: Some(loader) or None.
get_loader(ldrs, overrides, name) ==
    LET ext == IF HasDot(name) THEN <<".">> \o LastSegment(LowerStr(name)) ELSE <<>>
        declared == {o \in overrides : o.ext = ext}
        override_name == (CHOOSE o \in declared : TRUE).name
        named == {i \in 1..Len(ldrs) :
                      LowerName(ldrs[i].name) = LowerName(override_name)}
        first == CHOOSE i \in named : \A j \in named : i =< j
        candidates == SelectSeq(ldrs, LAMBDA l : can_handle(l, name))
    IN  IF declared # {} /\ named # {} THEN <<ldrs[first]>>
        ELSE IF candidates = <<>> THEN None
        ELSE <<max_priority(candidates)>>

LoaderStart(env) ==
    /\ loaders = BuiltinLoaders
    /\ extension_overrides = load_overrides(env)
    /\ filename = <<>>
    /\ found = None

\* The registry once LoaderRegistry() has initialised it.
LoaderInit == \E env \in Environments : LoaderStart(env)

\* LoaderRegistry.register, and _load_plugins appending a plugin's loader.
Register ==
    /\ \E l \in PluginLoaders :
        /\ \A i \in 1..Len(loaders) : loaders[i] # l
        /\ loaders' = Append(loaders, l)
    /\ UNCHANGED <<extension_overrides, filename, found>>
    /\ UNCHANGED besidesLoader

\* registry.get_loader(filename)
GetLoader ==
    /\ \E f \in Filenames :
        /\ filename' = f
        /\ found' = get_loader(loaders, extension_overrides, f)
    /\ UNCHANGED <<loaders, extension_overrides>>
    /\ UNCHANGED besidesLoader

LoaderNext == Register \/ GetLoader

---------------------------------------------------------------------------
(* LoaderRegistry() called from several threads *)

\* Threads that call LoaderRegistry() concurrently.
MaxThreads == 3

Threads == 1..MaxThreads

NoThread == 0

\* A registry object as __new__ leaves it: nothing loaded, not initialised.
\* overrides and plugins count the runs of _load_overrides and _load_plugins on
\* the object, builtin the built-in loaders in its _loaders list.
NewRegistry ==
    [initialized |-> FALSE, overrides |-> 0, builtin |-> 0, plugins |-> 0]

\* The second test of __init__, made under the lock, left out.
still_uninitialized_Unchecked(o) == TRUE

\* __init__, under the lock: if self._initialized: return
still_uninitialized(o) == ~o.initialized

SingletonStart ==
    /\ instance = None
    /\ lock = NoThread
    /\ objs = <<>>
    /\ tpc = [t \in Threads |-> "idle"]
    /\ tobj = [t \in Threads |-> None]

\* A thread calls LoaderRegistry(): __new__ begins.
Call(t) ==
    /\ tpc[t] = "idle"
    /\ tpc' = [tpc EXCEPT ![t] = "new"]
    /\ UNCHANGED <<instance, lock, objs, tobj>>
    /\ UNCHANGED besidesSingleton

\* __new__: if cls._instance is None, tested without the lock.
NewTest(t) ==
    /\ tpc[t] = "new"
    /\ tpc' = [tpc EXCEPT ![t] = IF instance = None THEN "new_lock" ELSE "new_return"]
    /\ UNCHANGED <<instance, lock, objs, tobj>>
    /\ UNCHANGED besidesSingleton

\* __new__: with cls._lock
NewAcquire(t) ==
    /\ tpc[t] = "new_lock"
    /\ lock = NoThread
    /\ lock' = t
    /\ tpc' = [tpc EXCEPT ![t] = "new_locked"]
    /\ UNCHANGED <<instance, objs, tobj>>
    /\ UNCHANGED besidesSingleton

\* __new__ under the lock: the second test, and the creation of the instance,
\* which is published in cls._instance once its attributes are set.
NewCreate(t) ==
    /\ tpc[t] = "new_locked"
    /\ IF instance = None
          THEN /\ objs' = Append(objs, NewRegistry)
               /\ instance' = <<Len(objs) + 1>>
          ELSE UNCHANGED <<objs, instance>>
    /\ tpc' = [tpc EXCEPT ![t] = "new_unlock"]
    /\ UNCHANGED <<lock, tobj>>
    /\ UNCHANGED besidesSingleton

\* __new__: the with block of cls._lock ends.
NewRelease(t) ==
    /\ tpc[t] = "new_unlock"
    /\ lock' = NoThread
    /\ tpc' = [tpc EXCEPT ![t] = "new_return"]
    /\ UNCHANGED <<instance, objs, tobj>>
    /\ UNCHANGED besidesSingleton

\* __new__: return cls._instance; __init__ is then called on that object.
NewReturn(t) ==
    /\ tpc[t] = "new_return"
    /\ tobj' = [tobj EXCEPT ![t] = instance]
    /\ tpc' = [tpc EXCEPT ![t] = "init"]
    /\ UNCHANGED <<instance, lock, objs>>
    /\ UNCHANGED besidesSingleton

\* __init__: if self._initialized: return, tested without the lock.
InitTest(t) ==
    /\ tpc[t] = "init"
    /\ tpc' = [tpc EXCEPT ![t] =
                  IF objs[tobj[t][1]].initialized THEN "returned" ELSE "init_lock"]
    /\ UNCHANGED <<instance, lock, objs, tobj>>
    /\ UNCHANGED besidesSingleton

\* __init__: with LoaderRegistry._lock
InitAcquire(t) ==
    /\ tpc[t] = "init_lock"
    /\ lock = NoThread
    /\ lock' = t
    /\ tpc' = [tpc EXCEPT ![t] = "init_locked"]
    /\ UNCHANGED <<instance, objs, tobj>>
    /\ UNCHANGED besidesSingleton

\* __init__ under the lock: the second test; return releases the lock.
InitRetest(t) ==
    /\ tpc[t] = "init_locked"
    /\ IF still_uninitialized(objs[tobj[t][1]])
          THEN /\ tpc' = [tpc EXCEPT ![t] = "load_overrides"]
               /\ UNCHANGED lock
          ELSE /\ tpc' = [tpc EXCEPT ![t] = "returned"]
               /\ lock' = NoThread
    /\ UNCHANGED <<instance, objs, tobj>>
    /\ UNCHANGED besidesSingleton

\* self._load_overrides()
LoadOverrides(t) ==
    /\ tpc[t] = "load_overrides"
    /\ objs' = [objs EXCEPT ![tobj[t][1]].overrides = @ + 1]
    /\ tpc' = [tpc EXCEPT ![t] = "load_builtin"]
    /\ UNCHANGED <<instance, lock, tobj>>
    /\ UNCHANGED besidesSingleton

\* self._load_builtin(): the six built-in loaders are appended.
LoadBuiltin(t) ==
    /\ tpc[t] = "load_builtin"
    /\ objs' = [objs EXCEPT ![tobj[t][1]].builtin = @ + Len(BuiltinLoaders)]
    /\ tpc' = [tpc EXCEPT ![t] = "load_plugins"]
    /\ UNCHANGED <<instance, lock, tobj>>
    /\ UNCHANGED besidesSingleton

\* self._load_plugins()
LoadPlugins(t) ==
    /\ tpc[t] = "load_plugins"
    /\ objs' = [objs EXCEPT ![tobj[t][1]].plugins = @ + 1]
    /\ tpc' = [tpc EXCEPT ![t] = "set_initialized"]
    /\ UNCHANGED <<instance, lock, tobj>>
    /\ UNCHANGED besidesSingleton

\* self._initialized = True, and the with block ends.
SetInitialized(t) ==
    /\ tpc[t] = "set_initialized"
    /\ objs' = [objs EXCEPT ![tobj[t][1]].initialized = TRUE]
    /\ lock' = NoThread
    /\ tpc' = [tpc EXCEPT ![t] = "returned"]
    /\ UNCHANGED <<instance, tobj>>
    /\ UNCHANGED besidesSingleton

SingletonNext ==
    \E t \in Threads :
        \/ Call(t)
        \/ NewTest(t)
        \/ NewAcquire(t)
        \/ NewCreate(t)
        \/ NewRelease(t)
        \/ NewReturn(t)
        \/ InitTest(t)
        \/ InitAcquire(t)
        \/ InitRetest(t)
        \/ LoadOverrides(t)
        \/ LoadBuiltin(t)
        \/ LoadPlugins(t)
        \/ SetInitialized(t)

---------------------------------------------------------------------------
(* The ingest command over files *)

\* Most files a run collects; paths are 1..MaxFiles, ordered as pathlib orders
\* the paths they stand for.
MaxFiles == 3

Paths == 1..MaxFiles

\* Values of --parallel tried: sequential, and a pool of two workers.
Workers == {1, 2}

\* What ingest_file comes to for a file: ingested, no loader for it, no text
\* in it, and a failure of client.ingest_text (a failure of loader.load gives
\* the same result without the call).
OutcomeKinds == {"ingested", "no_loader", "empty", "failed"}

\* result['status'] of ingest_file
status_of(k) ==
    CASE k = "ingested" -> "success"
      [] k = "no_loader" -> "skipped"
      [] k = "empty" -> "skipped"
      [] k = "failed" -> "error"

\* result['chunks'] of ingest_file: chunks_created of the backend's answer,
\* different from file to file.
chunks_of(f, k) == IF k = "ingested" THEN f + 1 ELSE 0

Counts(s, f, k, c) == [success |-> s, failed |-> f, skipped |-> k, chunks |-> c]

\* success = 0, failed = 0, skipped = 0, total_chunks = 0
NoCounts == Counts(0, 0, 0, 0)

\* The chain that counts a success without adding its chunks.
tally_NoChunks(c, f, k) ==
    CASE status_of(k) = "success" -> [c EXCEPT !.success = @ + 1]
      [] status_of(k) = "skipped" -> [c EXCEPT !.skipped = @ + 1]
      [] status_of(k) = "error" -> [c EXCEPT !.failed = @ + 1]

\* The if / elif chain on result['status'] that both loops run on a result.
tally(c, f, k) ==
    CASE status_of(k) = "success" ->
              [c EXCEPT !.success = @ + 1, !.chunks = @ + chunks_of(f, k)]
      [] status_of(k) = "skipped" -> [c EXCEPT !.skipped = @ + 1]
      [] status_of(k) = "error" -> [c EXCEPT !.failed = @ + 1]

\* The listings a directory can give: the paths 1..n in any order.
IsListing(g) ==
    \E n \in 0..MaxFiles :
        /\ Len(g) = n
        /\ \A p \in 1..n : \E i \in 1..n : g[i] = p

Listings == {g \in UNION {[1..n -> Paths] : n \in 0..MaxFiles} : IsListing(g)}

RECURSIVE sorted(_)
\* sorted(list)
sorted(s) ==
    IF s = <<>> THEN <<>>
    ELSE LET m == CHOOSE i \in 1..Len(s) : \A j \in 1..Len(s) : s[i] =< s[j]
         IN  <<s[m]>> \o sorted(SubSeq(s, 1, m - 1) \o SubSeq(s, m + 1, Len(s)))

\* collect_files that returns the listing as the directory gave it.
collect_files_Unsorted(g) == g

\* collect_files(path, pattern, recursive) for a listing g of the directory
\* (a path that is a file gives the one-element list).
collect_files(g) == sorted(g)

\* click.exceptions.Exit, which ctx.exit raises, is a RuntimeError: an
\* "except Exception" clause around a ctx.exit call catches it.
ExitIsException == TRUE

\* The cancellation pass that walks the futures without cancelling any.
cancel_Never(state) == state

\* future.cancel() guarded by "if not f.done()": a pending future becomes
\* cancelled, a running or finished one stays as it is.
cancel(state) == IF state = "pending" THEN "cancelled" ELSE state

\* An exit status that does not look at the failures.
exit_status_AlwaysZero(c) == 0

\* if failed > 0: ctx.exit(1) else: ctx.exit(0)
exit_status(c) == IF c.failed > 0 THEN 1 ELSE 0

\* A namespace that is never required.
namespace_required_Never(fs, o) == FALSE

\* if len(files) > 1 and not namespace
namespace_required(fs, o) == Len(fs) > 1 /\ ~o.namespace

Options(p, s, n, d, y) ==
    [parallel |-> p, skip_errors |-> s, namespace |-> n, dry_run |-> d, yes |-> y]

IngestStart ==
    /\ iopts = Options(1, FALSE, FALSE, FALSE, FALSE)
    /\ files = <<>>
    /\ outcome = <<>>
    /\ ipc = "start"
    /\ gate = "none"
    /\ counts = NoCounts
    /\ summaries = <<>>
    /\ istatus = -1
    /\ attempted = <<>>
    /\ task = <<>>
    /\ observed = {}
    /\ ci = 0
    /\ facades = 0
    /\ extracted = 0
    /\ netcalls = 0
    /\ listed = 0
    /\ pendingAtError = {}

\* The parts of the run that a step of the orchestrating thread or of a
\* worker leaves alone.
runInputs == <<iopts, files, outcome>>

\* ingest(...) up to collect_files: the options are read, the registry is
\* obtained and the files are collected.
IngestBegin ==
    /\ ipc = "start"
    /\ \E p \in Workers, s \in BOOLEAN, n \in BOOLEAN, d \in BOOLEAN, y \in BOOLEAN,
          g \in Listings :
        /\ iopts' = Options(p, s, n, d, y)
        /\ files' = collect_files(g)
        /\ \E o \in [1..Len(g) -> OutcomeKinds] : outcome' = o
    /\ ipc' = "collected"
    /\ UNCHANGED <<gate, counts, summaries, istatus, attempted, task, observed, ci,
                   facades, extracted, netcalls, listed, pendingAtError>>
    /\ UNCHANGED besidesIngest

\* The run stops at a local gate g with exit status s.
StopAt(g, s) ==
    /\ gate' = g
    /\ istatus' = s
    /\ ipc' = "exited"
    /\ UNCHANGED <<runInputs, counts, summaries, attempted, task, observed, ci,
                   facades, extracted, netcalls, pendingAtError>>
    /\ UNCHANGED besidesIngest

\* if not files: "No files to ingest", return
StopNoFiles ==
    /\ ipc = "collected"
    /\ files = <<>>
    /\ UNCHANGED listed
    /\ StopAt("no_files", 0)

\* if len(files) > 1 and not namespace: ctx.exit(1)
StopNamespace ==
    /\ ipc = "collected"
    /\ namespace_required(files, iopts)
    /\ UNCHANGED listed
    /\ StopAt("namespace", 1)

\* if dry_run: the first 20 files are listed with registry.get_loader, return
StopDryRun ==
    /\ ipc = "collected"
    /\ files # <<>>
    /\ ~namespace_required(files, iopts)
    /\ iopts.dry_run
    /\ listed' = Min(Len(files), 20)
    /\ StopAt("dry_run", 0)

\* The run gets as far as the confirmation prompt.
AtPrompt ==
    /\ ipc = "collected"
    /\ files # <<>>
    /\ ~namespace_required(files, iopts)
    /\ ~iopts.dry_run

\* if not yes and len(files) > 1: click.confirm(...) answered no: return
StopDeclined ==
    /\ AtPrompt
    /\ ~iopts.yes /\ Len(files) > 1
    /\ UNCHANGED listed
    /\ StopAt("declined", 0)

\* The gates are passed (the prompt, when there is one, is answered yes).  A
\* sequential run enters "with StacheAPI(config) as client"; a parallel run
\* submits one task per file to the executor.
Proceed ==
    /\ AtPrompt
    /\ gate' = "passed"
    /\ IF iopts.parallel > 1
          THEN /\ ipc' = "pool"
               /\ task' = [i \in 1..Len(files) |-> "pending"]
               /\ UNCHANGED facades
          ELSE /\ ipc' = "seq"
               /\ facades' = facades + 1
               /\ UNCHANGED task
    /\ UNCHANGED <<runInputs, counts, summaries, istatus, attempted, observed, ci,
                   extracted, netcalls, listed, pendingAtError>>
    /\ UNCHANGED besidesIngest

\* ingest_file(client, registry, filepath, ...): the loader.load and
\* client.ingest_text calls it makes on the way to its result.
loads_of(k) == IF k = "no_loader" THEN 0 ELSE 1

\* ingest_file: client.ingest_text when the loader gave text.
calls_of(k) == IF k \in {"no_loader", "empty"} THEN 0 ELSE 1

\* One turn of the sequential loop: the next file is ingested and its result
\* counted; on an error without --skip-errors the summary is printed and
\* ctx.exit(1) leaves the command.
SeqFile ==
    /\ ipc = "seq"
    /\ Len(attempted) < Len(files)
    /\ LET f == files[Len(attempted) + 1]
           k == outcome[f]
           c == tally(counts, f, k)
           stop == status_of(k) = "error" /\ ~iopts.skip_errors
       IN  /\ attempted' = Append(attempted, f)
           /\ observed' = observed \cup {f}
           /\ extracted' = extracted + loads_of(k)
           /\ netcalls' = netcalls + calls_of(k)
           /\ counts' = c
           /\ IF stop
                 THEN /\ summaries' = Append(summaries, c)
                      /\ istatus' = 1
                      /\ ipc' = "exited"
                 ELSE UNCHANGED <<summaries, istatus, ipc>>
    /\ UNCHANGED <<runInputs, gate, task, ci, facades, listed, pendingAtError>>
    /\ UNCHANGED besidesIngest

\* The summary and the exit status at the end of ingest.
Finish ==
    /\ summaries' = Append(summaries, counts)
    /\ istatus' = exit_status(counts)
    /\ ipc' = "exited"

\* The sequential loop is over.
SeqFinish ==
    /\ ipc = "seq"
    /\ Len(attempted) = Len(files)
    /\ Finish
    /\ UNCHANGED <<runInputs, gate, counts, attempted, task, observed, ci, facades,
                   extracted, netcalls, listed, pendingAtError>>
    /\ UNCHANGED besidesIngest

\* A pool whose tasks are never seen running: no call of theirs returns.
Running_None == {}

\* The workers of the pool are busy with at most max_workers tasks.
Running == {f \in 1..Len(task) : task[f] = "running"}

\* A worker of the pool takes the first task of the queue that is still
\* pending: ingest_file_worker starts and constructs its own StacheAPI.
TaskStart ==
    /\ ipc \in {"pool", "cancelling"}
    /\ Cardinality(Running) < iopts.parallel
    /\ \E i \in 1..Len(files) :
        /\ task[files[i]] = "pending"
        /\ \A j \in 1..(i - 1) : task[files[j]] # "pending"
        /\ task' = [task EXCEPT ![files[i]] = "running"]
        /\ attempted' = Append(attempted, files[i])
    /\ facades' = facades + 1
    /\ UNCHANGED <<runInputs, ipc, gate, counts, summaries, istatus, observed, ci,
                   extracted, netcalls, listed, pendingAtError>>
    /\ UNCHANGED besidesIngest

\* ingest_file_worker returns: the future has its result.
TaskFinish ==
    /\ ipc \in {"pool", "cancelling", "shutdown"}
    /\ \E f \in Running :
        /\ task' = [task EXCEPT ![f] = "done"]
        /\ extracted' = extracted + loads_of(outcome[f])
        /\ netcalls' = netcalls + calls_of(outcome[f])
    /\ UNCHANGED <<runInputs, ipc, gate, counts, summaries, istatus, attempted,
                   observed, ci, facades, listed, pendingAtError>>
    /\ UNCHANGED besidesIngest

\* as_completed hands the orchestrating thread a finished future: its result
\* is counted.  On an error without --skip-errors the thread goes on to cancel
\* the futures.
Observe ==
    /\ ipc = "pool"
    /\ \E f \in 1..Len(task) :
        /\ task[f] = "done"
        /\ f \notin observed
        /\ observed' = observed \cup {f}
        /\ counts' = tally(counts, f, outcome[f])
        /\ IF status_of(outcome[f]) = "error" /\ ~iopts.skip_errors
              THEN /\ ipc' = "cancelling"
                   /\ ci' = 1
                   /\ pendingAtError' = {p \in 1..Len(task) : task[p] = "pending"}
              ELSE UNCHANGED <<ipc, ci, pendingAtError>>
    /\ UNCHANGED <<runInputs, gate, summaries, istatus, attempted, task, facades,
                   extracted, netcalls, listed>>
    /\ UNCHANGED besidesIngest

\* for f in future_to_file: if not f.done(): f.cancel() -- one future.
CancelStep ==
    /\ ipc = "cancelling"
    /\ ci =< Len(files)
    /\ task' = [task EXCEPT ![files[ci]] = cancel(@)]
    /\ ci' = ci + 1
    /\ UNCHANGED <<runInputs, ipc, gate, counts, summaries, istatus, attempted,
                   observed, facades, extracted, netcalls, listed, pendingAtError>>
    /\ UNCHANGED besidesIngest

\* After the cancellation pass: the summary is printed and ctx.exit(1) is
\* called inside the try block, whose "except Exception" clause catches the
\* Exit: it counts one more failure, walks the futures again (none is pending
\* any more), prints the summary again and calls ctx.exit(1), which leaves the
\* loop.
AbortSummary ==
    /\ ipc = "cancelling"
    /\ ci > Len(files)
    /\ IF ExitIsException
          THEN /\ counts' = [counts EXCEPT !.failed = @ + 1]
               /\ summaries' = summaries \o <<counts, counts'>>
          ELSE /\ UNCHANGED counts
               /\ summaries' = Append(summaries, counts)
    /\ ipc' = "shutdown"
    /\ UNCHANGED <<runInputs, gate, istatus, attempted, task, observed, ci, facades,
                   extracted, netcalls, listed, pendingAtError>>
    /\ UNCHANGED besidesIngest

\* The Exit leaves "with ThreadPoolExecutor": shutdown(wait=True) returns once
\* the running tasks are over, and the command exits with status 1.
AbortExit ==
    /\ ipc = "shutdown"
    /\ Running = {}
    /\ istatus' = 1
    /\ ipc' = "exited"
    /\ UNCHANGED <<runInputs, gate, counts, summaries, attempted, task, observed, ci,
                   facades, extracted, netcalls, listed, pendingAtError>>
    /\ UNCHANGED besidesIngest

\* The as_completed loop is over: every future has been handled.
PoolFinish ==
    /\ ipc = "pool"
    /\ observed = {f \in 1..Len(task) : TRUE}
    /\ Finish
    /\ UNCHANGED <<runInputs, gate, counts, attempted, task, observed, ci, facades,
                   extracted, netcalls, listed, pendingAtError>>
    /\ UNCHANGED besidesIngest

IngestNext ==
    \/ IngestBegin
    \/ StopNoFiles
    \/ StopNamespace
    \/ StopDryRun
    \/ StopDeclined
    \/ Proceed
    \/ SeqFile
    \/ SeqFinish
    \/ TaskStart
    \/ TaskFinish
    \/ Observe
    \/ CancelStep
    \/ AbortSummary
    \/ AbortExit
    \/ PoolFinish

---------------------------------------------------------------------------
(* The exit status of the subcommands *)

Subcommands == {c.name : c \in Commands}

\* Subcommands with a JSON option that is parsed locally.
JsonCommands == {"search", "namespace create", "namespace update", "ingest --text"}

\* Subcommands that ask for a confirmation with click.confirm(..., abort=True).
ConfirmCommands == {"doc delete", "namespace delete"}

\* Subcommands with a --json flag.
AsJsonCommands ==
    {"search", "health", "models", "doc list", "doc get", "namespace list",
     "namespace get"}

\* Subcommands that look into the backend's answer for a result that is not a
\* success: success false for doc delete, an auth_status other than valid for
\* health.
ResultCommands == {"doc delete", "health"}

\* The local inputs a subcommand can be given.  "missing" is update with none
\* of --name, --description, --metadata, and ingest --stdin without input.
InputsOf(c) ==
    {"ok"}
      \cup (IF c \in JsonCommands THEN {"bad_json"} ELSE {})
      \cup (IF c \in ConfirmCommands THEN {"declined"} ELSE {})
      \cup (IF c \in {"namespace update", "ingest --text"} THEN {"missing"} ELSE {})

BackendsOf(c) ==
    {"ok", "raises"} \cup (IF c \in ResultCommands THEN {"unsuccessful"} ELSE {})

\* The status of the process when the command function returns, when it calls
\* ctx.exit(n), and when an exception (click.Abort included) leaves it.
Returned == 0
Exited(n) == n
Raised == 1

\* The local checks of a subcommand on its input: the status the command
\* ends with there, or -1 when the input passes.
local_check(c, input) ==
    CASE input = "bad_json" /\ c = "ingest --text" -> Exited(1)
      [] input = "bad_json" /\ c # "ingest --text" -> Returned
      [] input = "missing" /\ c = "ingest --text" -> Exited(1)
      [] input = "missing" /\ c # "ingest --text" -> Returned
      [] input = "declined" -> Raised
      [] OTHER -> -1

\* The status of a subcommand after its facade call.
call_status(c, backend) ==
    CASE backend = "raises" -> IF c = "ingest --text" THEN Exited(1) ELSE Raised
      [] backend = "unsuccessful" -> Returned
      [] backend = "ok" -> IF c = "ingest --text" THEN Exited(0) ELSE Returned

\* What the command prints last after its facade call.
call_printed(c, backend, json) ==
    CASE backend = "raises" ->
              IF c \in {"health", "ingest --text"} THEN "error" ELSE "none"
      [] backend = "unsuccessful" -> IF json THEN "output" ELSE "error"
      [] backend = "ok" -> "output"

ExitStart ==
    /\ xcmd = "none"
    /\ xinput = "ok"
    /\ xjson = FALSE
    /\ xbackend = "ok"
    /\ xpc = "start"
    /\ xprinted = "none"
    /\ xstatus = -1

\* click has parsed the command line and calls the command function.
Invoke ==
    /\ xpc = "start"
    /\ \E c \in Subcommands :
        /\ xcmd' = c
        /\ \E i \in InputsOf(c) : xinput' = i
        /\ \E j \in BOOLEAN : (j => c \in AsJsonCommands) /\ xjson' = j
        /\ \E b \in BackendsOf(c) : xbackend' = b
    /\ xpc' = "invoked"
    /\ UNCHANGED <<xprinted, xstatus>>
    /\ UNCHANGED besidesExit

\* search constructs its facade before it parses --filter; the other
\* subcommands make their local checks first.
checks_first(c) == c # "search"

\* A local check stops the command.
Reject ==
    /\ \/ xpc = "invoked" /\ checks_first(xcmd)
       \/ xpc = "constructed" /\ ~checks_first(xcmd)
    /\ local_check(xcmd, xinput) # -1
    /\ xstatus' = local_check(xcmd, xinput)
    /\ xprinted' = IF xinput = "declined" THEN "none" ELSE "error"
    /\ xpc' = "exited"
    /\ UNCHANGED <<xcmd, xinput, xjson, xbackend>>
    /\ UNCHANGED besidesExit

\* StacheAPI() is constructed.
Construct ==
    /\ xpc = "invoked"
    /\ checks_first(xcmd) => local_check(xcmd, xinput) = -1
    /\ xpc' = "constructed"
    /\ UNCHANGED <<xcmd, xinput, xjson, xbackend, xprinted, xstatus>>
    /\ UNCHANGED besidesExit

\* The facade call returns and the command prints its result.
CallReturns ==
    /\ xpc = "constructed"
    /\ local_check(xcmd, xinput) = -1
    /\ xbackend # "raises"
    /\ xstatus' = call_status(xcmd, xbackend)
    /\ xprinted' = call_printed(xcmd, xbackend, xjson)
    /\ xpc' = "exited"
    /\ UNCHANGED <<xcmd, xinput, xjson, xbackend>>
    /\ UNCHANGED besidesExit

\* The facade call raises: health turns the exception into click.Abort,
\* ingest into ctx.exit(1), and the other subcommands let it through.
CallRaises ==
    /\ xpc = "constructed"
    /\ local_check(xcmd, xinput) = -1
    /\ xbackend = "raises"
    /\ xstatus' = call_status(xcmd, xbackend)
    /\ xprinted' = call_printed(xcmd, xbackend, xjson)
    /\ xpc' = "exited"
    /\ UNCHANGED <<xcmd, xinput, xjson, xbackend>>
    /\ UNCHANGED besidesExit

ExitNext ==
    \/ Invoke
    \/ Reject
    \/ Construct
    \/ CallReturns
    \/ CallRaises

---------------------------------------------------------------------------
(* The MCP tool handlers and their identifier arguments *)

\* A JSON value of an argument: a missing key, null, a string, a number.
Value(t, s, n) == [t |-> t, s |-> s, n |-> n]
Absent == Value("absent", <<>>, 0)
Null == Value("null", <<>>, 0)
Str(s) == Value("str", s, 0)
Num(n) == Value("num", <<>>, n)

\* MAX_ID_LENGTH = 200
MAX_ID_LENGTH == 200

Letters ==
    {"a", "b", "c", "d", "e", "f", "g", "h", "i", "j", "k", "l", "m", "n", "o",
     "p", "q", "r", "s", "t", "u", "v", "w", "x", "y", "z",
     "A", "B", "C", "D", "E", "F", "G", "H", "I", "J", "K", "L", "M", "N", "O",
     "P", "Q", "R", "S", "T", "U", "V", "W", "X", "Y", "Z"}

Digits == {"0", "1", "2", "3", "4", "5", "6", "7", "8", "9"}

\* The character class [a-zA-Z0-9_/-] of ID_PATTERN
IdChars == Letters \cup Digits \cup {"_", "/", "-"}

\* ID_PATTERN.match(s) for ^[a-zA-Z0-9_/-]+$ : "$" also matches before a
\* newline that ends the string.
ID_PATTERN_match(s) ==
    LET body == IF s # <<>> /\ s[Len(s)] = "\n" THEN SubSeq(s, 1, Len(s) - 1) ELSE s
    IN  body # <<>> /\ \A i \in 1..Len(body) : body[i] \in IdChars

\* validate_id without the test of the length.
validate_id_NoLength(s) ==
    IF s = <<>> THEN Some("cannot be empty")
    ELSE IF ~ID_PATTERN_match(s) THEN Some("contains invalid characters")
    ELSE None

\* validate_id(id_value, id_type): None if valid, the error message if not.
validate_id(s) ==
    IF s = <<>> THEN Some("cannot be empty")
    ELSE IF Len(s) > MAX_ID_LENGTH THEN Some("too long")
    ELSE IF ~ID_PATTERN_match(s) THEN Some("contains invalid characters")
    ELSE None

Whitespace == {" ", "\t", "\n", "\r"}

RECURSIVE lstrip(_)
lstrip(s) == IF s # <<>> /\ s[1] \in Whitespace THEN lstrip(Tail(s)) ELSE s

RECURSIVE rstrip(_)
rstrip(s) ==
    IF s # <<>> /\ s[Len(s)] \in Whitespace THEN rstrip(SubSeq(s, 1, Len(s) - 1)) ELSE s

\* str.strip()
strip(s) == rstrip(lstrip(s))

\* bool(v) for a value the handler got from args.get
bool(v) == (v.t = "str" /\ v.s # <<>>) \/ (v.t = "num" /\ v.n # 0)

Rep(c, n) == [i \in 1..n |-> c]

\* Identifier strings tried: empty, short, with every kind of allowed
\* character, at and around the maximal length, with a character outside the
\* class and with a blank inside; each also with whitespace around it.
IdCores ==
    {<<>>, <<"a">>, <<"d", "o", "c", "s", "/", "A", "-", "b", "_", "9">>,
     Rep("a", MAX_ID_LENGTH - 1), Rep("a", MAX_ID_LENGTH), Rep("a", MAX_ID_LENGTH + 1),
     <<"a", ";", "b">>, <<"a", " ", "b">>}

IdStrings == IdCores \cup {<<" ">> \o c \o <<"\t", "\n">> : c \in IdCores}

\* The values an identifier argument can have in the arguments object.
IdValues == {Absent, Null, Num(0), Num(5)} \cup {Str(s) : s \in IdStrings}

\* Values of the text arguments query, text and name.
TextValues == {Absent, Str(<<" ">>), Str(<<"q">>)}

Arguments(q, d, ns, i, p, nn, o) ==
    [query |-> q, doc_id |-> d, namespace |-> ns, id |-> i, parent_id |-> p,
     new_namespace |-> nn, other |-> o]

NoArguments == Arguments(Absent, Absent, Absent, Absent, Absent, Absent, FALSE)

\* The argument objects tried for each tool: the arguments the handler reads
\* range over the values above, the others are missing.
ArgumentsOf(tool) ==
    CASE tool \in {"search", "ingest_text"} ->
            {[NoArguments EXCEPT !.query = q, !.namespace = ns] :
                q \in TextValues, ns \in IdValues}
      [] tool = "list_documents" ->
            {[NoArguments EXCEPT !.namespace = ns] : ns \in IdValues}
      [] tool \in {"get_document", "delete_document"} ->
            {[NoArguments EXCEPT !.doc_id = d, !.namespace = ns] :
                d \in IdValues, ns \in IdValues}
      [] tool = "update_document" ->
            {[NoArguments EXCEPT !.doc_id = d, !.namespace = ns,
                                 !.new_namespace = nn, !.other = o] :
                d \in {Str(<<"a">>), Str(<<>>)}, ns \in IdValues, nn \in IdValues,
                o \in BOOLEAN}
      [] tool = "create_namespace" ->
            {[NoArguments EXCEPT !.id = i, !.query = q, !.parent_id = p] :
                i \in IdValues, q \in TextValues, p \in IdValues}
      [] tool \in {"get_namespace", "update_namespace", "delete_namespace"} ->
            {[NoArguments EXCEPT !.id = i] : i \in IdValues}
      [] OTHER -> {NoArguments}

Tools ==
    {"search", "ingest_text", "list_namespaces", "list_documents", "get_document",
     "delete_document", "update_document", "create_namespace", "get_namespace",
     "update_namespace", "delete_namespace"}

\* The methods StacheAPI has among those the handlers call.
FacadeMethods == Tools \ {"update_document"}

\* args.get(key, default).strip(): the stripped string, or an AttributeError
\* when the value is not a string.
get_stripped(v, default) ==
    CASE v.t = "absent" -> [raised |-> FALSE, s |-> strip(default)]
      [] v.t = "str" -> [raised |-> FALSE, s |-> strip(v.s)]
      [] OTHER -> [raised |-> TRUE, s |-> <<>>]

\* x = args.get(key); if x: x = x.strip(); error = validate_id(x, ...):
\* the value that goes on to the facade, or the error.
get_optional(v) ==
    IF ~bool(v) THEN [raised |-> FALSE, error |-> None, v |-> v]
    ELSE IF v.t # "str" THEN [raised |-> TRUE, error |-> None, v |-> v]
    ELSE [raised |-> FALSE, error |-> validate_id(strip(v.s)), v |-> Str(strip(v.s))]

\* What a handler comes to: an error text without a facade call, or a call.
Error == [error |-> TRUE, op |-> "none", ids |-> <<>>]
FacadeCall(op, ids) == [error |-> FALSE, op |-> op, ids |-> ids]

\* A required identifier: stripped, tested for emptiness, validated.
required_id(v, default) ==
    LET g == get_stripped(v, default)
    IN  IF g.raised \/ g.s = <<>> \/ validate_id(g.s) # None
           THEN [ok |-> FALSE, v |-> Absent]
           ELSE [ok |-> TRUE, v |-> Str(g.s)]

\* A required text: args.get(key, "").strip() must not be empty.
required_text(v) ==
    LET g == get_stripped(v, <<>>) IN ~g.raised /\ g.s # <<>>

\* An optional identifier.
optional_id(v) ==
    LET g == get_optional(v)
    IN  [ok |-> ~g.raised /\ g.error = None, v |-> g.v]

\* _handle_search and _handle_ingest_text
handle_text_tool(op, a) ==
    IF ~required_text(a.query) THEN Error
    ELSE IF ~optional_id(a.namespace).ok THEN Error
    ELSE FacadeCall(op, [namespace |-> optional_id(a.namespace).v])

\* _handle_list_documents
handle_list_documents(a) ==
    IF ~optional_id(a.namespace).ok THEN Error
    ELSE FacadeCall("list_documents", [namespace |-> optional_id(a.namespace).v])

Default == <<"d", "e", "f", "a", "u", "l", "t">>

\* _handle_get_document and _handle_delete_document
handle_document_tool(op, a) ==
    IF ~required_id(a.doc_id, <<>>).ok THEN Error
    ELSE IF ~required_id(a.namespace, Default).ok THEN Error
    ELSE FacadeCall(op, [doc_id |-> required_id(a.doc_id, <<>>).v,
                         namespace |-> required_id(a.namespace, Default).v])

\* _handle_update_document
handle_update_document(a) ==
    IF ~required_id(a.doc_id, <<>>).ok THEN Error
    ELSE IF ~required_id(a.namespace, Default).ok THEN Error
    ELSE IF bool(a.new_namespace) /\ ~optional_id(a.new_namespace).ok THEN Error
    ELSE IF ~bool(a.new_namespace) /\ ~a.other THEN Error
    ELSE IF bool(a.new_namespace)
       THEN FacadeCall("update_document",
                       [doc_id |-> required_id(a.doc_id, <<>>).v,
                        namespace |-> required_id(a.namespace, Default).v,
                        new_namespace |-> optional_id(a.new_namespace).v])
       ELSE FacadeCall("update_document",
                       [doc_id |-> required_id(a.doc_id, <<>>).v,
                        namespace |-> required_id(a.namespace, Default).v])

\* _handle_create_namespace
handle_create_namespace(a) ==
    LET i == get_stripped(a.id, <<>>)
        name == get_stripped(a.query, <<>>)
    IN  IF i.raised \/ name.raised THEN Error
        ELSE IF i.s = <<>> \/ name.s = <<>> THEN Error
        ELSE IF validate_id(i.s) # None THEN Error
        ELSE IF ~optional_id(a.parent_id).ok THEN Error
        ELSE FacadeCall("create_namespace",
                        [id |-> Str(i.s), parent_id |-> optional_id(a.parent_id).v])

\* _handle_get_namespace, _handle_update_namespace, _handle_delete_namespace
handle_namespace_tool(op, a) ==
    IF ~required_id(a.id, <<>>).ok THEN Error
    ELSE FacadeCall(op, [id |-> required_id(a.id, <<>>).v])

\* The identifiers StacheAPI puts in the request of an operation: search,
\* ingest_text, list_documents and create_namespace leave out an optional
\* identifier that is not truthy.
request_ids(op, ids) ==
    {ids[k] : k \in {f \in DOMAIN ids :
                        (f \in {"namespace", "parent_id"}
                           /\ op \in {"search", "ingest_text", "list_documents",
                                      "create_namespace"})
                        => bool(ids[f])}}

McpStart ==
    /\ mtool = "none"
    /\ margs = NoArguments
    /\ mpc = "idle"
    /\ mresult = "none"
    /\ mcalls = <<>>
    /\ mwire = {}

\* ToolHandler.handle(name, arguments) is called.
Handle ==
    /\ mpc = "idle"
    /\ \E t \in Tools \cup {"unknown"} :
        /\ mtool' = t
        /\ \E a \in ArgumentsOf(t) : margs' = a
    /\ mpc' = "called"
    /\ UNCHANGED <<mresult, mcalls, mwire>>
    /\ UNCHANGED besidesMcp

\* The handler has come to o: it returns the error text, or makes the facade
\* call, which returns, raises, or reports an unsuccessful result; a method
\* that StacheAPI does not have raises AttributeError before any call.  handle
\* turns every exception into an error text.
Respond(o) ==
    /\ mpc' = "done"
    /\ IF o.error \/ o.op \notin FacadeMethods
          THEN /\ mresult' = "error"
               /\ UNCHANGED <<mcalls, mwire>>
          ELSE /\ mcalls' = Append(mcalls, o)
               /\ mwire' = request_ids(o.op, o.ids)
               /\ \E r \in {"text", "error"} : mresult' = r
    /\ UNCHANGED <<mtool, margs>>
    /\ UNCHANGED besidesMcp

HandleUnknown ==
    /\ mpc = "called" /\ mtool = "unknown"
    /\ Respond(Error)

HandleSearch ==
    /\ mpc = "called" /\ mtool = "search"
    /\ Respond(handle_text_tool("search", margs))

HandleIngestText ==
    /\ mpc = "called" /\ mtool = "ingest_text"
    /\ Respond(handle_text_tool("ingest_text", margs))

HandleListNamespaces ==
    /\ mpc = "called" /\ mtool = "list_namespaces"
    /\ Respond(FacadeCall("list_namespaces", <<>>))

HandleListDocuments ==
    /\ mpc = "called" /\ mtool = "list_documents"
    /\ Respond(handle_list_documents(margs))

HandleGetDocument ==
    /\ mpc = "called" /\ mtool = "get_document"
    /\ Respond(handle_document_tool("get_document", margs))

HandleDeleteDocument ==
    /\ mpc = "called" /\ mtool = "delete_document"
    /\ Respond(handle_document_tool("delete_document", margs))

HandleUpdateDocument ==
    /\ mpc = "called" /\ mtool = "update_document"
    /\ Respond(handle_update_document(margs))

HandleCreateNamespace ==
    /\ mpc = "called" /\ mtool = "create_namespace"
    /\ Respond(handle_create_namespace(margs))

HandleGetNamespace ==
    /\ mpc = "called" /\ mtool = "get_namespace"
    /\ Respond(handle_namespace_tool("get_namespace", margs))

HandleUpdateNamespace ==
    /\ mpc = "called" /\ mtool = "update_namespace"
    /\ Respond(handle_namespace_tool("update_namespace", margs))

HandleDeleteNamespace ==
    /\ mpc = "called" /\ mtool = "delete_namespace"
    /\ Respond(handle_namespace_tool("delete_namespace", margs))

McpNext ==
    \/ Handle
    \/ HandleUnknown
    \/ HandleSearch
    \/ HandleIngestText
    \/ HandleListNamespaces
    \/ HandleListDocuments
    \/ HandleGetDocument
    \/ HandleDeleteDocument
    \/ HandleUpdateDocument
    \/ HandleCreateNamespace
    \/ HandleGetNamespace
    \/ HandleUpdateNamespace
    \/ HandleDeleteNamespace

---------------------------------------------------------------------------
(* The MCP server: concurrent tool invocations on the one ToolHandler *)

\* Tool invocations the host sends.
MaxCalls == 2

CallIds == 1..MaxCalls

\* What an invocation comes to before any facade call: an unknown tool name,
\* arguments that fail validation, arguments that make the handler raise
\* (a value that has no strip method), or a facade call.
CallPaths == {"unknown", "invalid", "raises", "facade"}

\* What the facade call, run by asyncio.to_thread on a worker thread, comes
\* to: a result, a result that reports no success, a StacheError, another
\* exception of the transport or of the response's decoding.
ThreadOutcomes == {"ok", "unsuccessful", "StacheError", "OtherError"}

\* The exception classes met in a handler.
ExceptionClasses == {"StacheError", "AttributeError", "OtherError"}

\* An except clause that names StacheError only.
caught_StacheErrorOnly(e) == e = "StacheError"

\* "except Exception as e": every one of these classes derives from Exception.
caught(e) == e \in ExceptionClasses

\* What call_tool returns for a handler that returned text t or raised e
\* ("none"): handle catches and returns the error text, and call_tool catches
\* what handle lets through; what neither catches reaches the host protocol.
answer_of(t, e) ==
    IF e = "none" THEN t
    ELSE IF caught(e) THEN "error"
    ELSE "exception"

Invocation(at, path, out, answer, client) ==
    [pc |-> at, path |-> path, out |-> out, answer |-> answer, client |-> client]

NotSent == Invocation("none", "none", "none", "none", 0)

ServerStart ==
    /\ scalls = [i \in CallIds |-> NotSent]
    /\ skind = "http"
    /\ sclient = 0
    /\ screated = 0
    /\ sopen = {}
    /\ sclosed = FALSE

\* create_server: handler = ToolHandler(config), whose StacheAPI creates the
\* transport the configuration resolves to.
ServerInit ==
    /\ scalls = [i \in CallIds |-> NotSent]
    /\ skind \in {"http", "lambda"}
    /\ sclient = 0
    /\ screated = 0
    /\ sopen = {}
    /\ sclosed = FALSE

\* The invocations whose facade call is on a worker thread.
OnThread == {i \in CallIds : scalls[i].pc \in {"client_test", "client_create", "request"}}

\* call_tool(name, arguments) -> handler.handle: the part that runs on the
\* event loop up to the first await of asyncio.to_thread.  Without a facade
\* call the invocation is answered there.
Receive(i) ==
    /\ ~sclosed
    /\ scalls[i].pc = "none"
    /\ \E p \in CallPaths :
        scalls' = [scalls EXCEPT ![i] =
            CASE p = "facade" ->
                    Invocation(IF skind = "http" THEN "client_test" ELSE "request",
                               p, "none", "none", 0)
              [] p = "raises" ->
                    Invocation("answered", p, "AttributeError",
                               answer_of("none", "AttributeError"), 0)
              [] OTHER -> Invocation("answered", p, "none", answer_of("error", "none"), 0)]
    /\ UNCHANGED <<skind, sclient, screated, sopen, sclosed>>
    /\ UNCHANGED besidesServer

\* HTTPTransport.client on the worker thread: if self._client is None
ClientTest(i) ==
    /\ scalls[i].pc = "client_test"
    /\ scalls' = [scalls EXCEPT ![i] =
          IF sclient = 0
             THEN [@ EXCEPT !.pc = "client_create"]
             ELSE [@ EXCEPT !.pc = "request", !.client = sclient]]
    /\ UNCHANGED <<skind, sclient, screated, sopen, sclosed>>
    /\ UNCHANGED besidesServer

\* self._client = httpx.Client(...); return self._client
ClientCreate(i) ==
    /\ scalls[i].pc = "client_create"
    /\ screated' = screated + 1
    /\ sopen' = sopen \cup {screated + 1}
    /\ sclient' = screated + 1
    /\ scalls' = [scalls EXCEPT ![i] = [@ EXCEPT !.pc = "request", !.client = screated + 1]]
    /\ UNCHANGED <<skind, sclosed>>
    /\ UNCHANGED besidesServer

\* The verb call of the facade operation returns or raises on its thread.
RequestDone(i) ==
    /\ scalls[i].pc = "request"
    /\ \E o \in ThreadOutcomes :
        scalls' = [scalls EXCEPT ![i] = [@ EXCEPT !.pc = "resumed", !.out = o]]
    /\ UNCHANGED <<skind, sclient, screated, sopen, sclosed>>
    /\ UNCHANGED besidesServer

\* The event loop resumes the handler after its await: the result is
\* formatted (the formatter may raise) and returned, or the exception of the
\* facade call is handled.
Answer(i) ==
    /\ scalls[i].pc = "resumed"
    /\ \E fmt \in {"none", "OtherError"} :
        LET o == scalls[i].out
            a == CASE o = "ok" -> answer_of("text", fmt)
                   [] o = "unsuccessful" -> answer_of("error", "none")
                   [] OTHER -> answer_of("none", o)
        IN  scalls' = [scalls EXCEPT ![i] = [@ EXCEPT !.pc = "answered", !.answer = a]]
    /\ UNCHANGED <<skind, sclient, screated, sopen, sclosed>>
    /\ UNCHANGED besidesServer

\* run_server's finally clause: handler.close() -> HTTPTransport.close(),
\* which closes the client it holds, if any, and forgets it.
HandlerClose ==
    /\ ~sclosed
    /\ OnThread = {}
    /\ \A i \in CallIds : scalls[i].pc \in {"none", "answered"}
    /\ sclosed' = TRUE
    /\ sopen' = IF skind = "http" /\ sclient # 0 THEN sopen \ {sclient} ELSE sopen
    /\ sclient' = 0
    /\ UNCHANGED <<scalls, skind, screated>>
    /\ UNCHANGED besidesServer

ServerNext ==
    \/ \E i \in CallIds :
        \/ Receive(i)
        \/ ClientTest(i)
        \/ ClientCreate(i)
        \/ RequestDone(i)
        \/ Answer(i)
    \/ HandlerClose

---------------------------------------------------------------------------
(* cli/ingest.py: ingest_file and ingest_file_worker *)

MaxTasks == 2

\* pathlib.Path: absolute or relative, and its parts below the root or the
\* working directory.
Path(abs, parts) == [abs |-> abs, parts |-> parts]

\* Path.cwd()
cwd == <<"home", "user">>

\* Path.resolve() of a path without ".." parts and without symbolic links
resolve(p) == IF p.abs THEN p ELSE Path(TRUE, cwd \o p.parts)

\* PurePath.relative_to(other): the rest of the path below other, or
\* ValueError (None here) when other is not a leading part of it.
relative_to(p, other) ==
    IF /\ p.abs = other.abs
       /\ Len(other.parts) =< Len(p.parts)
       /\ SubSeq(p.parts, 1, Len(other.parts)) = other.parts
    THEN Some(Path(FALSE, SubSeq(p.parts, Len(other.parts) + 1, Len(p.parts))))
    ELSE None

RECURSIVE joined(_)
joined(parts) ==
    IF Len(parts) =< 1 THEN parts
    ELSE <<parts[1], "/">> \o joined(Tail(parts))

\* str(path)
str(p) ==
    IF p.abs THEN <<"/">> \o joined(p.parts)
    ELSE IF p.parts = <<>> THEN <<".">> ELSE joined(p.parts)

\* Path.name
name(p) == IF p.parts = <<>> THEN "" ELSE p.parts[Len(p.parts)]

\* The source_path that ingest_file puts into the metadata of the file.
source_path(filepath, base_path) ==
    IF base_path # None
    THEN LET rel == relative_to(resolve(filepath), resolve(base_path[1]))
         IN  IF rel # None THEN str(rel[1]) ELSE str(filepath)
    ELSE <<name(filepath)>>

\* "not doc.text.strip()" that accepts every text but the empty one.
blank_EmptyOnly(text) == text = <<>>

\* not doc.text.strip()
blank(text) == strip(text) = <<>>

\* A StacheAPI constructed anew is the same object as the first one made.
fresh_Shared(count) == 1

\* StacheAPI(config): a new instance, one more than were made before.
fresh(count) == count + 1

\* The arguments of a task and what its file and the backend hold for it:
\* whether a loader handles the file, what loader.load comes to, the text
\* extracted, and what client.ingest_text comes to once the transport has
\* made its attempts.
Job(filepath, base_path, loader, load, text, ingest) ==
    [filepath |-> filepath, base_path |-> base_path, loader |-> loader,
     load |-> load, text |-> text, ingest |-> ingest]

FilePaths ==
    {Path(FALSE, <<"a.txt">>),
     Path(FALSE, <<"docs", "a.txt">>),
     Path(FALSE, <<"docs", "sub", "a.txt">>),
     Path(TRUE, <<"home", "user", "a.txt">>),
     Path(TRUE, <<"home", "user", "docs", "a.txt">>),
     Path(TRUE, <<"data", "a.txt">>)}

BasePaths ==
    {None,
     Some(Path(FALSE, <<"docs">>)),
     Some(Path(TRUE, <<"home", "user">>)),
     Some(Path(TRUE, <<"home", "user", "docs">>)),
     Some(Path(TRUE, <<"data">>))}

IngestOutcomes == {"ok", "StacheError", "OtherError"}

ChunksCreated == 2

\* Jobs over every file and base path, each with a readable text.
PathJobs ==
    {Job(f, b, TRUE, "ok", <<"a">>, "ok") : f \in FilePaths, b \in BasePaths}

\* Jobs over every kind of file and backend answer.
WorkerJobs ==
    LET f == Path(FALSE, <<"docs", "a.txt">>)
    IN  {Job(f, None, FALSE, "ok", <<>>, "ok"),
         Job(f, None, TRUE, "OtherError", <<>>, "ok"),
         Job(f, None, TRUE, "ok", <<>>, "ok"),
         Job(f, None, TRUE, "ok", <<" ", "\n">>, "ok")}
        \cup {Job(f, b, TRUE, "ok", <<" ", "a">>, o) :
                 b \in {None, Some(Path(TRUE, <<"data">>))}, o \in IngestOutcomes}

\* The dict ingest_file returns.
FileResult(status, reason, chunks) ==
    [status |-> status, reason |-> reason, chunks |-> chunks]

WorkerStart ==
    /\ wjobs = <<>>
    /\ wpc = <<>>
    /\ wclient = <<>>
    /\ wmade = 0
    /\ wopen = {}
    /\ wused = {}
    /\ wsent = <<>>
    /\ wresult = <<>>

\* The pool has been handed one task for each of the given jobs.
Submitted(jobs) ==
    /\ wjobs = jobs
    /\ wpc = [i \in 1..Len(jobs) |-> "pending"]
    /\ wclient = [i \in 1..Len(jobs) |-> 0]
    /\ wmade = 0
    /\ wopen = {}
    /\ wused = {}
    /\ wsent = [i \in 1..Len(jobs) |-> None]
    /\ wresult = [i \in 1..Len(jobs) |-> None]

WorkerInit == \E n \in 1..MaxTasks : \E jobs \in [1..n -> WorkerJobs] : Submitted(jobs)

PathInit == \E job \in PathJobs : Submitted(<<job>>)

\* ingest_file_worker starts: "with StacheAPI(config) as client" constructs
\* the facade and its transport, or the constructor raises and the task ends
\* with that exception.
WorkerBegin(i) ==
    /\ wpc[i] = "pending"
    /\ \/ /\ wclient' = [wclient EXCEPT ![i] = fresh(wmade)]
          /\ wmade' = wmade + 1
          /\ wopen' = wopen \cup {fresh(wmade)}
          /\ wpc' = [wpc EXCEPT ![i] = "opened"]
       \/ /\ wpc' = [wpc EXCEPT ![i] = "raised"]
          /\ UNCHANGED <<wclient, wmade, wopen>>
    /\ UNCHANGED <<wjobs, wused, wsent, wresult>>
    /\ UNCHANGED besidesWorker

\* ingest_file up to its call of client.ingest_text: the loader lookup, the
\* load, the test for blank text, the source_path and the metadata.
Extract(i) ==
    /\ wpc[i] = "opened"
    /\ LET job == wjobs[i]
       IN  IF ~job.loader
           THEN /\ wresult' = [wresult EXCEPT ![i] = Some(FileResult("skipped", "no_loader", 0))]
                /\ wpc' = [wpc EXCEPT ![i] = "returning"]
                /\ UNCHANGED <<wused, wsent>>
           ELSE IF job.load # "ok"
           THEN /\ wresult' = [wresult EXCEPT ![i] = Some(FileResult("error", job.load, 0))]
                /\ wpc' = [wpc EXCEPT ![i] = "returning"]
                /\ UNCHANGED <<wused, wsent>>
           ELSE IF blank(job.text)
           THEN /\ wresult' = [wresult EXCEPT ![i] = Some(FileResult("skipped", "empty", 0))]
                /\ wpc' = [wpc EXCEPT ![i] = "returning"]
                /\ UNCHANGED <<wused, wsent>>
           ELSE /\ wsent' = [wsent EXCEPT ![i] =
                               @ \o <<[text |-> job.text,
                                      source_path |-> source_path(job.filepath, job.base_path),
                                      filename |-> name(job.filepath)]>>]
                /\ wused' = wused \cup {<<i, wclient[i]>>}
                /\ wpc' = [wpc EXCEPT ![i] = "calling"]
                /\ UNCHANGED wresult
    /\ UNCHANGED <<wjobs, wclient, wmade, wopen>>
    /\ UNCHANGED besidesWorker

\* client.ingest_text returns or raises, and ingest_file returns its result.
IngestDone(i) ==
    /\ wpc[i] = "calling"
    /\ LET job == wjobs[i]
       IN  wresult' = [wresult EXCEPT ![i] =
               IF job.ingest = "ok"
               THEN Some(FileResult("success", "none", ChunksCreated))
               ELSE Some(FileResult("error", job.ingest, 0))]
    /\ wpc' = [wpc EXCEPT ![i] = "returning"]
    /\ UNCHANGED <<wjobs, wclient, wmade, wopen, wused, wsent>>
    /\ UNCHANGED besidesWorker

\* The with statement is left: StacheAPI.__exit__ closes the facade, which
\* closes its transport, and the worker returns the result.
WorkerExit(i) ==
    /\ wpc[i] = "returning"
    /\ wopen' = wopen \ {wclient[i]}
    /\ wpc' = [wpc EXCEPT ![i] = "done"]
    /\ UNCHANGED <<wjobs, wclient, wmade, wused, wsent, wresult>>
    /\ UNCHANGED besidesWorker

WorkerNext ==
    \/ \E i \in 1..Len(wjobs) : WorkerBegin(i)
    \/ \E i \in 1..Len(wjobs) : Extract(i)
    \/ \E i \in 1..Len(wjobs) : IngestDone(i)
    \/ \E i \in 1..Len(wjobs) : WorkerExit(i)

---------------------------------------------------------------------------
(* client/lambda_transport.py: _invoke and the payload of the response *)

\* The bytes of no payload at all: not a JSON document.
EmptyBytes == [NoWire EXCEPT !.ev = "Invoked", !.pshape = "text"]

\* StreamingBody.read(): the payload the first time, nothing afterwards.
read(response, consumed) == IF consumed THEN EmptyBytes ELSE response

\* The bytes are taken from the stream again when they are parsed.
parsed_bytes_Reread(bytes, response, consumed) == read(response, consumed)

\* json.loads(payload_bytes): the bytes that are parsed are those held.
parsed_bytes(bytes, response, consumed) == bytes

\* The part of _invoke after the read: the FunctionError key is looked up in
\* the response, the documents are parsed from the bytes.
invoke_result(response, bytes) == lambda_invoke([bytes EXCEPT !.ferr = response.ferr])

InvokeStart ==
    /\ presponse = NoWire
    /\ ppc = "idle"
    /\ pconsumed = FALSE
    /\ preads = 0
    /\ payload_bytes = NoWire
    /\ pout = NoResult

\* self._lambda.invoke(...) returns a response or raises.
InvokeCall ==
    /\ ppc = "idle"
    /\ \E w \in LambdaWires :
        /\ presponse' = w
        /\ IF w.ev = "Invoked"
              THEN /\ ppc' = "invoked"
                   /\ UNCHANGED pout
              ELSE /\ ppc' = "done"
                   /\ pout' = lambda_invoke(w)
    /\ UNCHANGED <<pconsumed, preads, payload_bytes>>
    /\ UNCHANGED besidesInvoke

\* payload_bytes = response["Payload"].read()
ReadPayload ==
    /\ ppc = "invoked"
    /\ payload_bytes' = read(presponse, pconsumed)
    /\ pconsumed' = TRUE
    /\ preads' = preads + 1
    /\ ppc' = "read"
    /\ UNCHANGED <<presponse, pout>>
    /\ UNCHANGED besidesInvoke

\* The function error is raised, or the envelope is parsed and handled.
BuildResult ==
    /\ ppc = "read"
    /\ pout' = invoke_result(presponse, parsed_bytes(payload_bytes, presponse, pconsumed))
    /\ ppc' = "done"
    /\ UNCHANGED <<presponse, pconsumed, preads, payload_bytes>>
    /\ UNCHANGED besidesInvoke

InvokeNext == InvokeCall \/ ReadPayload \/ BuildResult

---------------------------------------------------------------------------
(* Specifications *)

\* Each specification starts its own subsystem in any of its initial states and
\* holds the others still.
\* The subsystems a specification holds still, in their first state.
ClientIdle ==
    VerbStart("http") /\ FacadeStart(FALSE) /\ CmdStart /\ CfgStart("auto", None, TRUE)

ToolsIdle == LoaderStart({}) /\ SingletonStart /\ IngestStart /\ ExitStart /\ McpStart /\ ServerStart /\ WorkerStart /\ InvokeStart

InitVerb ==
    /\ VerbInit /\ FacadeStart(FALSE) /\ CmdStart /\ CfgStart("auto", None, TRUE)
    /\ ToolsIdle

InitFacade ==
    /\ VerbStart("http") /\ FacadeInit /\ CmdStart /\ CfgStart("auto", None, TRUE)
    /\ ToolsIdle

InitCommand ==
    /\ VerbStart("http") /\ FacadeStart(FALSE) /\ CmdStart /\ CfgStart("auto", None, TRUE)
    /\ ToolsIdle

InitConfig ==
    /\ VerbStart("http") /\ FacadeStart(FALSE) /\ CmdStart /\ CfgInit
    /\ ToolsIdle

InitLoader == ClientIdle /\ LoaderInit /\ SingletonStart /\ IngestStart /\ ExitStart /\ McpStart /\ ServerStart /\ WorkerStart /\ InvokeStart

InitSingleton == ClientIdle /\ LoaderStart({}) /\ SingletonStart /\ IngestStart /\ ExitStart /\ McpStart /\ ServerStart /\ WorkerStart /\ InvokeStart

InitIngest == ClientIdle /\ LoaderStart({}) /\ SingletonStart /\ IngestStart /\ ExitStart /\ McpStart /\ ServerStart /\ WorkerStart /\ InvokeStart

InitExit == ClientIdle /\ LoaderStart({}) /\ SingletonStart /\ IngestStart /\ ExitStart /\ McpStart /\ ServerStart /\ WorkerStart /\ InvokeStart

InitMcp == ClientIdle /\ LoaderStart({}) /\ SingletonStart /\ IngestStart /\ ExitStart /\ McpStart /\ ServerStart /\ WorkerStart /\ InvokeStart

InitServer == ClientIdle /\ LoaderStart({}) /\ SingletonStart /\ IngestStart /\ ExitStart /\ McpStart /\ ServerInit /\ WorkerStart /\ InvokeStart

InitWorker == ClientIdle /\ LoaderStart({}) /\ SingletonStart /\ IngestStart /\ ExitStart /\ McpStart /\ ServerStart /\ WorkerInit /\ InvokeStart

InitPath == ClientIdle /\ LoaderStart({}) /\ SingletonStart /\ IngestStart /\ ExitStart /\ McpStart /\ ServerStart /\ PathInit /\ InvokeStart

InitInvoke == ClientIdle /\ LoaderStart({}) /\ SingletonStart /\ IngestStart /\ ExitStart /\ McpStart /\ ServerStart /\ WorkerStart /\ InvokeStart

SpecVerb == InitVerb /\ [][VerbNext]_vars

SpecFacade == InitFacade /\ [][FacadeNext]_vars

SpecCommand == InitCommand /\ [][CmdNext]_vars

SpecConfig == InitConfig /\ [][CfgNext]_vars

SpecLoader == InitLoader /\ [][LoaderNext]_vars

SpecSingleton == InitSingleton /\ [][SingletonNext]_vars

SpecIngest == InitIngest /\ [][IngestNext]_vars

\* The run under the assumption that every ingest call returns or fails in the
\* end: a step that can be taken (a worker returning, the orchestrating thread
\* handling a finished future) is taken eventually.
SpecIngestFair == InitIngest /\ [][IngestNext]_vars /\ WF_vars(IngestNext)

SpecExit == InitExit /\ [][ExitNext]_vars

SpecMcp == InitMcp /\ [][McpNext]_vars

SpecServer == InitServer /\ [][ServerNext]_vars

SpecWorker == InitWorker /\ [][WorkerNext]_vars

SpecPath == InitPath /\ [][WorkerNext]_vars

SpecInvoke == InitInvoke /\ [][InvokeNext]_vars

\* The event loop and the worker threads keep running: an invocation that can
\* take a step eventually takes one.
SpecServerFair == InitServer /\ [][ServerNext]_vars /\ WF_vars(ServerNext)

---------------------------------------------------------------------------
(* Claims about a verb call (checked under SpecVerb) *)

\* The outcome of the latest attempt of the current call.
LastOutcome == log[Len(log)]

\* C1: a verb call on either transport makes at most 3 attempts, makes no
\* attempt after one that succeeded, and hands its caller the outcome of its
\* last attempt: the value when that attempt succeeded, and the very failure of
\* that attempt when it failed (never a success, never another exception).
C1_AtMostThreeAttemptsLastFailureRaised ==
    /\ Len(log) =< 3
    /\ \A i \in 1..(Len(log) - 1) : Failed(log[i])
    /\ (pc = "attempt") => (result = NoResult /\ Len(log) < 3)
    /\ (pc = "done") =>
          /\ Len(log) >= 1
          /\ result = LastOutcome
          /\ (Failed(LastOutcome) => Failed(result))

\* C1 witness: the third attempt of a call failed and its failure was raised.
C1_Witness ==
    /\ pc = "done"
    /\ Len(log) = 3
    /\ log[3].type = "StacheAPIError"
    /\ log[3].code = 503
    /\ result = log[3]

\* The retryable failures as the specification lists them.
SpecRetryable(o) ==
    \/ o.type = "StacheConnectionError"
    \/ /\ o.type = "StacheAPIError"
       /\ (o.code = 429 \/ o.code \in 500..599)

\* C2: an attempt is followed by another attempt exactly when it failed, fewer
\* than 3 attempts had been made, and its failure is a connection failure or a
\* generic API failure with status 429 or 500..599; the decision reads only the
\* failure's type and status code.
C2_RetryIffRetryableFailure ==
    \A i \in 1..Len(log) :
        (i < Len(log) \/ pc = "attempt")
            <=> (Failed(log[i]) /\ i < 3 /\ SpecRetryable(log[i]))

\* C2 witness: a 429 was retried and the not-found failure that followed ended
\* the call at once.
C2_Witness ==
    /\ pc = "done"
    /\ Len(log) = 2
    /\ log[1].type = "StacheAPIError" /\ log[1].code = 429
    /\ log[2].type = "StacheNotFoundError"

\* The latest attempt received a response whose status code is an integer and
\* reached the status mapping.
StatusMapped ==
    /\ Len(log) >= 1
    /\ \/ kind = "http" /\ wire.ev = "Response"
       \/ /\ kind = "lambda" /\ wire.ev = "Invoked"
          /\ wire.pshape = "dict" /\ ~wire.ferr /\ wire.skind = "int"

\* The response body of the latest attempt parses as JSON.
BodyParses == wire.body.shape \in {"dict", "list"}

\* C3: for every status code c of a response: 401 and 403 give an auth
\* failure, 404 a not-found failure, any other c >= 400 a generic API failure
\* carrying c, and c < 400 no failure of the status mapping (the payload is
\* returned: always by the Lambda transport, and by the HTTP transport for a
\* body that parses).
C3_StatusMapping ==
    StatusMapped =>
        LET c == wire.status
            o == LastOutcome
        IN  /\ (c = 401 \/ c = 403) => o.type = "StacheAuthError"
            /\ (c = 404) => o.type = "StacheNotFoundError"
            /\ (c >= 400 /\ c \notin {401, 403, 404}) =>
                  (o.type = "StacheAPIError" /\ o.code = c)
            /\ (c < 400) =>
                  /\ o.type \notin TypedFailures
                  /\ (kind = "lambda" \/ BodyParses) => o.type = "ok"

\* C3 witness: a Lambda envelope with statusCode 403 became an auth failure.
C3_Witness ==
    /\ StatusMapped
    /\ kind = "lambda"
    /\ wire.status = 403
    /\ LastOutcome.type = "StacheAuthError"

\* C4: every failure that leaves a verb call is one of the typed failures.
C4_OnlyTypedFailuresLeave ==
    (pc = "done") => result.type \in ({"ok"} \cup TypedFailures)

\* C5: a direct invocation maps target-not-found to a connection failure,
\* access-denied to an auth failure, every throttling or service-unavailable
\* SDK error to a generic API failure with status 503, and a function error to
\* a generic API failure with status 500 carrying the remote error type and
\* message.
C5_InvokeOutcomeMapping ==
    (kind = "lambda" /\ Len(log) >= 1) =>
        LET o == LastOutcome
        IN  /\ (wire.ev = "ClientError" /\ wire.code = "ResourceNotFoundException")
                  => o.type = "StacheConnectionError"
            /\ (wire.ev = "ClientError" /\ wire.code = "AccessDeniedException")
                  => o.type = "StacheAuthError"
            /\ (wire.ev = "ClientError"
                  /\ wire.code \in {"TooManyRequestsException", "ServiceException",
                                    "ServiceUnavailableException"})
                  => (o.type = "StacheAPIError" /\ o.code = 503)
            /\ (wire.ev = "Invoked" /\ wire.ferr /\ wire.pshape = "dict"
                  /\ wire.etype # Missing /\ wire.emsg # Missing)
                  => /\ o.type = "StacheAPIError" /\ o.code = 500
                     /\ o.detail = <<"Lambda execution error", wire.etype, wire.emsg>>

\* C7: once a verb call that received a response has ended, last_request_id
\* is the request_id of the latest response's JSON body, None when that
\* response carried none.
C7_LastRequestIdIsLatestResponse ==
    (pc = "done" /\ gotResponse) => last_request_id = respRid
---------------------------------------------------------------------------
(* Claims about the facade (checked under SpecFacade) *)

\* The UTF-8 size of a text, as the specification measures it.
SpecBytes(t) == t.w1 + t.w2 * 2 + t.w3 * 3 + t.w4 * 4

\* C8: no request leaves the facade with top_k above 50, a document-list limit
\* above 100 or ingest text above 10 MiB of UTF-8: top_k and limit are sent as
\* min(requested, cap), text of at most 10 MiB is sent as it is, and text of
\* 10 MiB + 1 byte or more raises a local error with no transport call.
C8_CapsEnforcedBeforeSending ==
    /\ \A i \in 1..Len(sent) :
        LET q == sent[i]
        IN  /\ (q.path = "/api/query") =>
                  (q.n =< 50 /\ q.n = (IF freq.n < 50 THEN freq.n ELSE 50))
            /\ (q.path = "/api/documents") =>
                  (q.n =< 100 /\ q.n = (IF freq.n < 100 THEN freq.n ELSE 100))
            /\ (q.path = "/api/capture") =>
                  (SpecBytes(q.text) =< 10485760 /\ q.text = freq.text)
    /\ (fop = "ingest_text") =>
          IF SpecBytes(freq.text) >= 10485761
              THEN fres = ValueError /\ sent = <<>> /\ tcalls = <<>>
              ELSE /\ Len(sent) = 1 /\ Len(tcalls) = 1
                   /\ sent[1].path = "/api/capture"
                   /\ fres = tcalls[1]

\* C8 witness: a text of 10 MiB + 1 byte that has exactly 10 MiB code points
\* was rejected locally.
C8_Witness ==
    /\ fop = "ingest_text"
    /\ SpecBytes(freq.text) = 10485761
    /\ freq.text.w1 + freq.text.w2 + freq.text.w3 + freq.text.w4 = 10485760
    /\ fres = ValueError
    /\ sent = <<>>

\* C9 as stated: whichever transport call of a facade operation ends in a
\* typed failure, the operation (health included) raises that failure.
C9_EveryTransportFailurePropagates ==
    \A i \in 1..Len(tcalls) :
        (tcalls[i].type \in TypedFailures) => fres = tcalls[i]

\* C9 as amended: a typed failure of a transport call propagates out of every
\* facade operation, except for the authentication probe of health (its second
\* call, made only with include_auth and OAuth configured), whose failure is
\* recorded in auth_status while health returns the payload of /health.
C9_FailuresPropagateExceptAuthProbe ==
    /\ \A i \in 1..Len(tcalls) :
        (tcalls[i].type \in TypedFailures) =>
            IF fop = "health" /\ i = 2
                THEN fres = tcalls[1] /\ ~Failed(fres) /\ auth_status = "failed"
                ELSE fres = tcalls[i]
    /\ (Len(tcalls) = 2) => (fop = "health" /\ freq.include_auth /\ oauth_enabled)

\* C9 witness: the first call of health failed and health raised that failure.
C9_Witness ==
    /\ fop = "health"
    /\ freq.include_auth
    /\ oauth_enabled
    /\ tcalls = <<StacheAuthError>>
    /\ fres = StacheAuthError

---------------------------------------------------------------------------
(* Claims about the commands (checked under SpecCommand) *)

\* C6: a command that constructed a facade has closed it on every exit path,
\* and however often close() is called, a client is closed at most once.
C6_ClosedOnEveryExitAtMostOnce ==
    /\ (cpc = "exited" /\ hasApi) => closeCalls >= 1
    /\ clientCloses =< clientsCreated
    /\ clientCloses =< 1

---------------------------------------------------------------------------
(* Claims about the configuration (checked under SpecConfig) *)

\* The transport the specification prescribes for a configuration.
SpecResolved(c) ==
    IF \/ c.transport = "lambda"
       \/ /\ c.transport = "auto"
          /\ c.lambda_function_name \notin {None, Some("")}
        THEN "lambda"
        ELSE "http"

\* C10 as stated: resolved_transport is lambda iff the mode is lambda, or auto
\* with a function identifier set; and the factory creates a transport of
\* exactly that kind.
C10_FactoryCreatesResolvedKind ==
    /\ (cfgpc \in {"config", "made"}) => resolved_transport(config) = SpecResolved(config)
    /\ (cfgpc = "made") => made = SpecResolved(config)

\* C10 as amended: resolved_transport is as stated for every configuration,
\* and create_transport returns a transport of exactly that kind except that it
\* raises ValueError when that kind is lambda and no function identifier is set
\* (mode lambda alone), and ImportError when that kind is lambda and boto3 is
\* not installed.
C10_ResolvedTransportAndFactory ==
    /\ (cfgpc \in {"config", "made"}) => resolved_transport(config) = SpecResolved(config)
    /\ (cfgpc = "made") =>
          made = IF SpecResolved(config) = "http" THEN "http"
                 ELSE IF config.lambda_function_name \in {None, Some("")} THEN "ValueError"
                 ELSE IF ~boto3_available THEN "ImportError"
                 ELSE "lambda"

\* C10 witness: mode AUTO with a function name set gave a Lambda transport.
C10_Witness ==
    /\ cfgpc = "made"
    /\ envMode = "AUTO"
    /\ config.transport = "auto"
    /\ config.lambda_function_name = Some("stache-api")
    /\ made = "lambda"

---------------------------------------------------------------------------
(* Claims about the loader registry (checked under SpecLoader) *)

\* The extension of a file name as the override table keys it: the dot and
\* what follows the last dot, in lower case; empty for a name without a dot.
FileExtension(f) ==
    IF \E i \in 1..Len(f) : f[i] = "."
        THEN LET i == CHOOSE k \in 1..Len(f) :
                          f[k] = "." /\ \A j \in (k + 1)..Len(f) : f[j] # "."
             IN  LowerStr(SubSeq(f, i, Len(f)))
        ELSE <<>>

\* The loaders of ldrs that declare the extension of f, whatever the case.
Matching(ldrs, f) ==
    {ldr \in {ldrs[i] : i \in 1..Len(ldrs)} :
        \E e \in ldr.extensions : LowerStr(e) = FileExtension(f)}

\* The loaders of ldrs whose type name an override for f's extension names.
OverrideNamed(ldrs, f) ==
    {ldr \in {ldrs[i] : i \in 1..Len(ldrs)} :
        \E o \in extension_overrides :
            o.ext = FileExtension(f) /\ LowerName(o.name) = LowerName(ldr.name)}

\* What the specification lets get_loader(f) return from the loaders ldrs.
Resolves(ldrs, f, r) ==
    IF OverrideNamed(ldrs, f) # {}
        THEN r # None /\ r[1] \in OverrideNamed(ldrs, f)
    ELSE IF Matching(ldrs, f) # {}
        THEN /\ r # None
             /\ r[1] \in Matching(ldrs, f)
             /\ \A m \in Matching(ldrs, f) : m.priority =< r[1].priority
    ELSE r = None

\* C11: with the override table and the registered loaders fixed, every
\* get_loader(filename) returns the loader named by the override declared for
\* the file's extension when a loader of that type name (whatever the case) is
\* registered; otherwise the loader of greatest priority among those matching
\* the file's extension, compared without regard to case; otherwise none.  An
\* override that names no registered loader changes nothing.
C11_OverrideThenHighestPriority ==
    [][(loaders' = loaders) => Resolves(loaders', filename', found')]_vars

\* C11 witness: report.PDF, no override in force, the built-in PDF loader
\* and the priority-10 OCR loader registered: the priority-10 loader is returned.
C11_Witness ==
    /\ filename = <<"r", "e", "p", "o", "r", "t", ".", "P", "D", "F">>
    /\ extension_overrides = {}
    /\ Len(loaders) = Len(BuiltinLoaders) + 1
    /\ found = <<Loader("OcrPdfLoader", {<<".", "p", "d", "f">>}, 10)>>

---------------------------------------------------------------------------
(* Claims about the registry singleton (checked under SpecSingleton) *)

\* C12: under any interleaving of concurrent LoaderRegistry() calls, all
\* callers obtain the same instance, the one-time initialisation (overrides,
\* built-in loaders, plugins) runs exactly once so that no loader is registered
\* twice, and no caller gets the registry back before that initialisation has
\* completed.
C12_OneInstanceInitialisedOnce ==
    /\ Len(objs) =< 1
    /\ \A i \in 1..Len(objs) :
        /\ objs[i].overrides =< 1
        /\ objs[i].builtin =< 6
        /\ objs[i].plugins =< 1
    /\ \A t \in Threads, u \in Threads :
        (tpc[t] = "returned" /\ tpc[u] = "returned") => tobj[t] = tobj[u]
    /\ \A t \in Threads :
        (tpc[t] = "returned") =>
            /\ tobj[t] # None
            /\ tobj[t] = instance
            /\ objs[tobj[t][1]] =
                  [initialized |-> TRUE, overrides |-> 1, builtin |-> 6, plugins |-> 1]

\* C12 witness: every one of the concurrent callers has the one registry back,
\* initialised.
C12_Witness ==
    /\ \A t \in Threads : tpc[t] = "returned"
    /\ Len(objs) = 1
    /\ objs[1].initialized
    /\ \A t \in Threads : tobj[t] = <<1>>

---------------------------------------------------------------------------
(* The ingest command over files: the claims *)

\* The files of a set S whose outcome is k.
OfKind(S, k) == {f \in S : outcome[f] = k}

RECURSIVE ChunkSum(_)
ChunkSum(S) ==
    IF S = {} THEN 0
    ELSE LET f == CHOOSE x \in S : TRUE
         IN  (IF outcome[f] = "ingested" THEN f + 1 ELSE 0) + ChunkSum(S \ {f})

\* The counts that the results of the files of S add up to.
Tally(S) ==
    [success |-> Cardinality(OfKind(S, "ingested")),
     failed  |-> Cardinality(OfKind(S, "failed")),
     skipped |-> Cardinality(OfKind(S, "no_loader") \cup OfKind(S, "empty")),
     chunks  |-> ChunkSum(S)]

AllFiles == {files[i] : i \in 1..Len(files)}

ParallelRun == gate = "passed" /\ iopts.parallel > 1

SequentialRun == gate = "passed" /\ iopts.parallel = 1

\* The orchestrating thread of a parallel run without --skip-errors has
\* handled a result with status error.
ErrorObserved ==
    /\ ParallelRun
    /\ ~iopts.skip_errors
    /\ OfKind(observed, "failed") # {}

\* C13 as stated: in a parallel run without --skip-errors, once the
\* orchestrating thread has observed the first error, every task that had not
\* started at that moment is cancelled and never starts.
C13_NotYetStartedNeverStarts ==
    ErrorObserved =>
        \A f \in pendingAtError : task[f] \in {"pending", "cancelled"}

\* C13, the state part: after the first observed error no further result is
\* handled; when the cancellation pass is over no task is left pending, a
\* summary of the counts so far, with at least one failure, has been printed;
\* and the command exits with status 1 once every started task is done.
C13_AbortedRun ==
    ErrorObserved =>
        /\ ipc # "pool"
        /\ Cardinality(OfKind(observed, "failed")) = 1
        /\ ipc \in {"shutdown", "exited"} =>
              /\ \A f \in AllFiles : task[f] # "pending"
              /\ summaries # <<>>
              /\ summaries[1] = Tally(observed)
              /\ summaries[1].failed >= 1
        /\ ipc = "exited" =>
              /\ istatus = 1
              /\ \A f \in AllFiles : task[f] \in {"done", "cancelled"}
              /\ \A f \in AllFiles : task[f] = "done" <=> \E i \in 1..Len(attempted) : attempted[i] = f

\* C13, the step part: the cancellation pass cancels the task it reaches when
\* that task is still pending, a cancelled task never starts, and a running
\* task is not interrupted.
C13_CancelStep ==
    /\ (ipc = "cancelling" /\ ci =< Len(files) /\ ci' = ci + 1 /\ task[files[ci]] = "pending")
           => task'[files[ci]] = "cancelled"
    /\ \A f \in DOMAIN task :
           /\ task[f] = "cancelled" => (f \in DOMAIN task' /\ task'[f] = "cancelled")
           /\ task[f] = "running" => (f \in DOMAIN task' /\ task'[f] \in {"running", "done"})

\* C13 (amended): in a parallel run without --skip-errors the first observed
\* error aborts the run: every task still pending when the cancellation pass
\* reaches it is cancelled and never starts, running tasks run to completion,
\* a summary of the counts so far with at least one failure is printed, and
\* the command exits non-zero.
C13_FirstErrorAbortsBestEffort == []C13_AbortedRun /\ [][C13_CancelStep]_vars

\* C13 witness: an aborted run has exited with one task cancelled and one task,
\* running when the error was observed, completed without being handled.
C13_Witness ==
    /\ ErrorObserved
    /\ ipc = "exited"
    /\ \E f \in AllFiles : task[f] = "cancelled"
    /\ \E f \in AllFiles : task[f] = "done" /\ f \notin observed

C14_WitnessSequentialClean ==
    /\ SequentialRun /\ iopts.skip_errors
    /\ istatus = 0
    /\ Len(attempted) = MaxFiles

\* The position of the first file whose outcome is an error (0 when none).
FirstError ==
    IF \E i \in 1..Len(files) : outcome[files[i]] = "failed"
       THEN CHOOSE i \in 1..Len(files) :
               /\ outcome[files[i]] = "failed"
               /\ \A j \in 1..(i - 1) : outcome[files[j]] # "failed"
       ELSE 0

\* The files a run with worker count 1 attempts over the same files, outcomes
\* and --skip-errors setting, and the counts it reports.
SequentialPrefix ==
    IF iopts.skip_errors \/ FirstError = 0
       THEN files
       ELSE SubSeq(files, 1, FirstError)

SequentialReport == Tally({SequentialPrefix[i] : i \in 1..Len(SequentialPrefix)})

\* The summary a run printed last.
FinalSummary == summaries[Len(summaries)]

\* C15 as stated: the success, failed and skipped counts that a run with
\* worker count > 1 reports are those a run with worker count 1 reports over
\* the same files and outcomes, whatever order the tasks complete in.
C15_ParallelReportsSequentialCounts ==
    (ParallelRun /\ ipc = "exited") =>
        /\ FinalSummary.success = SequentialReport.success
        /\ FinalSummary.failed = SequentialReport.failed
        /\ FinalSummary.skipped = SequentialReport.skipped

C16_WitnessNamespace == gate = "namespace" /\ istatus = 1 /\ Len(files) = 2

\* C16 witness for the dry run.
C16_WitnessDryRun == gate = "dry_run" /\ istatus = 0 /\ listed = MaxFiles

\* C17: in a sequential run the collected files are in ascending path order
\* and are attempted in that order; the text extractions and network calls
\* made are those of the files attempted; and without --skip-errors the files
\* attempted when the command exits are exactly the files up to and including
\* the first one whose outcome is an error, whose counts the summary reports.
C17_SequentialSortedPrefix ==
    /\ \A i, j \in 1..Len(files) : i < j => files[i] < files[j]
    /\ SequentialRun =>
          /\ attempted = SubSeq(files, 1, Len(attempted))
          /\ extracted = Cardinality({i \in 1..Len(attempted) : outcome[attempted[i]] # "no_loader"})
          /\ netcalls = Cardinality({i \in 1..Len(attempted) : outcome[attempted[i]] \in {"ingested", "failed"}})
          /\ ipc = "exited" =>
                /\ attempted = SequentialPrefix
                /\ summaries = <<Tally({attempted[i] : i \in 1..Len(attempted)})>>

\* C17 witness: a sequential run without --skip-errors over three files has
\* exited after the second file failed, leaving the third one alone.
C17_Witness ==
    /\ SequentialRun /\ ~iopts.skip_errors
    /\ ipc = "exited"
    /\ Len(files) = 3
    /\ FirstError = 2
    /\ Len(attempted) = 2

\* The summary of the parallel run whose tasks complete, and are handled, in
\* the order of their submission.
InOrderReport ==
    IF iopts.skip_errors \/ FirstError = 0
       THEN Tally(AllFiles)
       ELSE [SequentialReport EXCEPT !.failed = @ + 1]

C18_InOrderRunReached ==
    /\ ParallelRun /\ ~iopts.skip_errors /\ ipc = "exited"
    /\ Len(files) = 2 /\ FirstError = 2 /\ outcome[files[1]] = "ingested"
    /\ FinalSummary = InOrderReport

---------------------------------------------------------------------------
(* The exit status of the subcommands: the claims *)

\* The invocation was a full success: its input was given and valid, and its
\* backend call succeeded with a successful result.
FullSuccess == xinput = "ok" /\ xbackend = "ok"

\* C19 as stated: a subcommand exits with status 0 only on full success, and
\* with a non-zero status whenever its backend call failed, the backend
\* reported an unsuccessful result, or its input was missing or invalid.
C19_ZeroOnlyOnFullSuccess ==
    xpc = "exited" => (xstatus = 0 <=> FullSuccess)

---------------------------------------------------------------------------
(* The MCP tool handlers: the claims *)

\* A value is an identifier that passes the check: a string of 1 to 200
\* letters, digits, hyphens, underscores and slashes.
IsValidId(v) ==
    /\ v.t = "str"
    /\ Len(v.s) >= 1 /\ Len(v.s) =< 200
    /\ \A i \in 1..Len(v.s) : v.s[i] \in Letters \cup Digits \cup {"-", "_", "/"}

\* An identifier was given: the argument is neither missing nor null.
Given(v) == v.t \notin {"absent", "null"}

\* The identifiers that the facade calls made were given.
CalledWith == UNION {{c.ids[k] : k \in DOMAIN c.ids} : c \in {mcalls[i] : i \in 1..Len(mcalls)}}

\* C20 as stated: every identifier that reaches the facade is non-empty, at
\* most 200 characters long and made of the allowed characters.
C20_EveryIdentifierAtFacadeValid ==
    \A v \in CalledWith : Given(v) => IsValidId(v)

\* The optional identifiers of a tool and the ones it requires or defaults.
OptionalIdsOf(tool) ==
    CASE tool \in {"search", "ingest_text", "list_documents"} -> {"namespace"}
      [] tool = "create_namespace" -> {"parent_id"}
      [] tool = "update_document" -> {"new_namespace"}
      [] OTHER -> {}

RequiredIdsOf(tool) ==
    CASE tool \in {"get_document", "delete_document", "update_document"} -> {"doc_id", "namespace"}
      [] tool \in {"create_namespace", "get_namespace", "update_namespace", "delete_namespace"} -> {"id"}
      [] OTHER -> {}

\* A string that is an identifier once the whitespace around it is removed.
ValidOnceStripped(v) == v.t = "str" /\ IsValidId(Str(strip(v.s)))

\* An identifier argument of the call fails the check: a required one that is
\* given and not valid once stripped, or an optional one that is truthy and
\* not valid once stripped.
SomeIdentifierFails ==
    \/ \E k \in RequiredIdsOf(mtool) : Given(margs[k]) /\ ~ValidOnceStripped(margs[k])
    \/ \E k \in OptionalIdsOf(mtool) : bool(margs[k]) /\ ~ValidOnceStripped(margs[k])

\* C20 (amended): every identifier that the facade puts in a request is
\* non-empty, at most 200 characters long and made of the allowed characters;
\* an identifier handed to the facade is such an identifier, or an optional
\* one that is empty or zero, which the facade leaves out; and when an
\* identifier fails the check the tool returns an error text and makes no
\* facade call.
C20_IdentifiersValidOrLeftOut ==
    /\ \A v \in mwire : IsValidId(v)
    /\ \A v \in CalledWith : IsValidId(v) \/ ~bool(v)
    /\ \A i \in 1..Len(mcalls) : \A k \in DOMAIN mcalls[i].ids :
          ~IsValidId(mcalls[i].ids[k]) => k \in OptionalIdsOf(mtool)
    /\ (mpc = "done" /\ SomeIdentifierFails) => (mresult = "error" /\ mcalls = <<>>)

\* C20 witness: get_document was called with a document id of 200 characters
\* with whitespace around it and made its facade call; and, in another call,
\* an identifier of 201 characters was refused.
C20_Witness ==
    /\ mpc = "done"
    /\ mtool = "get_document"
    /\ margs.doc_id = Str(<<" ">> \o Rep("a", 200) \o <<"\t", "\n">>)
    /\ Len(mcalls) = 1
    /\ mcalls[1].ids.doc_id = Str(Rep("a", 200))

\* C20 witness for a refusal: an identifier of 201 characters.
C20_WitnessRefused ==
    /\ mpc = "done"
    /\ mtool = "delete_namespace"
    /\ margs.id = Str(Rep("a", 201))
    /\ mresult = "error" /\ mcalls = <<>>

---------------------------------------------------------------------------
(* The MCP server: the claims *)

\* An answered invocation was given a text: the result's text, or an error
\* text when its validation, its handler, its facade call or the formatting of
\* its result failed.
C21_AnsweredWithText ==
    \A i \in CallIds :
        scalls[i].pc = "answered" =>
            /\ scalls[i].answer \in {"text", "error"}
            /\ scalls[i].path # "facade" => scalls[i].answer = "error"
            /\ scalls[i].out # "ok" => scalls[i].answer = "error"

\* C21: every tool invocation, of a known or unknown tool, with arguments of
\* any kind, is eventually answered, and its answer is a text result: no
\* exception reaches the host protocol and a failure of validation, of the
\* facade or of the transport is answered with an error text.
C21_EveryInvocationAnswered ==
    /\ []C21_AnsweredWithText
    /\ \A i \in CallIds : (scalls[i].pc # "none") ~> (scalls[i].pc = "answered")

\* C21 witness: one invocation was answered with an error text after its
\* facade call raised an exception that is no StacheError, another after its
\* arguments made the handler raise.
C21_Witness ==
    /\ scalls[1].pc = "answered" /\ scalls[1].out = "OtherError"
    /\ scalls[1].answer = "error"
    /\ scalls[2].pc = "answered" /\ scalls[2].path = "raises"
    /\ scalls[2].answer = "error"

\* C26 as stated: the transport of the tool handler never has two verb calls
\* in flight at the same time, however the host interleaves its invocations.
C26_OneVerbCallInFlight ==
    Cardinality({i \in CallIds : scalls[i].pc = "request"}) =< 1

\* C29 as stated: an HTTP transport creates at most one client between its
\* construction and close(), also when its first verb calls come from several
\* threads at once, and after close() no client it created is open.
C29_OneClientAndNoneLeftOpen ==
    skind = "http" =>
        /\ screated =< 1
        /\ sclosed => sopen = {}

---------------------------------------------------------------------------
(* The MCP tools and the operations of the facade *)

\* What the handler of the tool called comes to on the arguments given.
HandlerOutcome ==
    CASE mtool \in {"search", "ingest_text"} -> handle_text_tool(mtool, margs)
      [] mtool = "list_namespaces" -> FacadeCall("list_namespaces", <<>>)
      [] mtool = "list_documents" -> handle_list_documents(margs)
      [] mtool \in {"get_document", "delete_document"} -> handle_document_tool(mtool, margs)
      [] mtool = "update_document" -> handle_update_document(margs)
      [] mtool = "create_namespace" -> handle_create_namespace(margs)
      [] mtool \in {"get_namespace", "update_namespace", "delete_namespace"} ->
              handle_namespace_tool(mtool, margs)
      [] OTHER -> Error

\* C22 as stated: every advertised tool, once its arguments have passed
\* validation, invokes the operation of the facade it stands for.
C22_AdvertisedToolsInvokeFacade ==
    (mpc = "done" /\ mtool \in Tools /\ ~HandlerOutcome.error) =>
        /\ Len(mcalls) = 1
        /\ mcalls[1].op = mtool

---------------------------------------------------------------------------
(* The summaries of a run *)

\* C28 as stated: every summary printed gives the tally of the file results
\* consumed so far (success + failed + skipped is their number, failed the
\* number of them that errored or raised, total chunks the chunks of the
\* successes), and a run that has gone past the gates and exited has printed
\* exactly one summary.
C28_OneSummaryOfConsumedResults ==
    /\ \A k \in 1..Len(summaries) :
          /\ summaries[k] = Tally(observed)
          /\ summaries[k].success + summaries[k].failed + summaries[k].skipped =
                 Cardinality(observed)
    /\ (gate = "passed" /\ ipc = "exited") => Len(summaries) = 1

---------------------------------------------------------------------------
(* Termination of an ingest run *)

\* C30: with every ingest call returning or failing in the end, every ingest
\* run exits; a run that has exited has one exit status, 0 or 1, and in
\* parallel mode, with or without --skip-errors, each of its submitted tasks
\* is completed or cancelled and none is running; and once the exit status is
\* there the run takes no further step, so no second status follows.
C30_EveryRunTerminates ==
    /\ <>(ipc = "exited")
    /\ [](ipc = "exited" =>
            /\ istatus \in {0, 1}
            /\ ParallelRun =>
                  /\ Len(task) = Len(files)
                  /\ \A f \in 1..Len(task) : task[f] \in {"done", "cancelled"})
    /\ [](ipc # "exited" => istatus = -1)
    /\ [][ipc # "exited"]_vars

\* C30 witness: a parallel run without --skip-errors has stopped at an error
\* and exited with status 1, one of its tasks completed and one cancelled.
C30_Witness ==
    /\ ParallelRun
    /\ ~iopts.skip_errors
    /\ ipc = "exited"
    /\ istatus = 1
    /\ \E f \in 1..Len(task) : task[f] = "done"
    /\ \E f \in 1..Len(task) : task[f] = "cancelled"

---------------------------------------------------------------------------
(* ingest_file and its worker *)

\* The file of a job lies under the base path of the job.
UnderBase(job) ==
    /\ job.base_path # None
    /\ LET f == resolve(job.filepath)
           b == resolve(job.base_path[1])
       IN  /\ Len(b.parts) =< Len(f.parts)
           /\ \A k \in 1..Len(b.parts) : f.parts[k] = b.parts[k]

\* C23 as stated: with a base path, the source_path sent with a file is the
\* path of the file relative to the base when the file lies under the base,
\* and the plain filename, without any directory part, when it does not.
C23_RelativeToBaseOrPlainFilename ==
    \A i \in 1..Len(wjobs) :
        (wsent[i] # None /\ wjobs[i].base_path # None) =>
            LET job == wjobs[i]
                given == wsent[i][1].source_path
            IN  IF UnderBase(job)
                THEN given = str(relative_to(resolve(job.filepath),
                                             resolve(job.base_path[1]))[1])
                ELSE given = <<name(job.filepath)>>

\* A text that is empty or holds whitespace only.
OnlyWhitespace(text) == \A k \in 1..Len(text) : text[k] \in Whitespace

\* The one result a job has to come to.
Expected(job) ==
    IF ~job.loader THEN FileResult("skipped", "no_loader", 0)
    ELSE IF job.load # "ok" THEN FileResult("error", job.load, 0)
    ELSE IF OnlyWhitespace(job.text) THEN FileResult("skipped", "empty", 0)
    ELSE IF job.ingest # "ok" THEN FileResult("error", job.ingest, 0)
    ELSE FileResult("success", "none", ChunksCreated)

\* C24: ingest_file, once called, never raises and returns exactly one of
\* skipped (no_loader), skipped (empty), success (with the chunk count) and
\* error (with the reason); a file without a loader and a file whose text is
\* empty or whitespace only lead to no ingest call; no file has more than one
\* ingest call; and an ingest call that failed is recorded as one error, with
\* no second call after it.
C24_OneOutcomeAtMostOneIngestCall ==
    \A i \in 1..Len(wjobs) :
        LET job == wjobs[i]
        IN  /\ wpc[i] = "raised" => wclient[i] = 0
            /\ wpc[i] \in {"returning", "done"} <=> wresult[i] # None
            /\ wresult[i] # None => wresult[i][1] = Expected(job)
            /\ Len(wsent[i]) =< 1
            /\ (~job.loader \/ job.load # "ok" \/ OnlyWhitespace(job.text)) =>
                   wsent[i] = None
            /\ (wresult[i] # None /\ wresult[i][1].status = "success") =>
                   Len(wsent[i]) = 1

\* C24 witness: a task is over whose one ingest call failed and whose result
\* is that error, next to a task whose text was whitespace only and was
\* skipped without a call.
C24_Witness ==
    /\ \E i \in 1..Len(wjobs) :
          /\ wpc[i] = "done"
          /\ wjobs[i].ingest = "StacheError"
          /\ wresult[i] = Some(FileResult("error", "StacheError", 0))
          /\ Len(wsent[i]) = 1
    /\ \E i \in 1..Len(wjobs) :
          /\ wpc[i] = "done"
          /\ wjobs[i].text = <<" ", "\n">>
          /\ wresult[i] = Some(FileResult("skipped", "empty", 0))
          /\ wsent[i] = None

\* The tasks that hold a facade: constructed, and the with statement not left.
Holding == {i \in 1..Len(wjobs) : wpc[i] \in {"opened", "calling", "returning"}}

\* C25: every task that constructed a facade constructed one of its own, no
\* other task has the same; the calls a task makes go to its own facade and
\* to no other; the facade is open while its task holds it and closed once the
\* task is over; a task whose constructor raised holds none.
C25_OwnFacadePerTask ==
    /\ \A i, j \in 1..Len(wjobs) :
          (i # j /\ wclient[i] # 0) => wclient[i] # wclient[j]
    /\ \A u \in wused : u[2] = wclient[u[1]] /\ u[2] # 0
    /\ \A i \in 1..Len(wjobs) :
          /\ i \in Holding => wclient[i] \in wopen
          /\ wpc[i] \in {"done", "raised"} => wclient[i] \notin wopen
          /\ wpc[i] \in {"pending", "raised"} => wclient[i] = 0
    /\ Cardinality(wopen) = Cardinality(Holding)

\* C25 witness: two tasks have their ingest calls in flight at the same time,
\* each on its own facade.
C25_Witness ==
    \E i, j \in 1..Len(wjobs) :
        /\ i # j
        /\ wpc[i] = "calling"
        /\ wpc[j] = "calling"
        /\ <<i, wclient[i]>> \in wused
        /\ <<j, wclient[j]>> \in wused

---------------------------------------------------------------------------
(* The payload of a direct invocation *)

\* C27: an invocation that returned a response and is over has read the
\* payload stream exactly once, for an envelope and for a function error
\* alike, and its outcome (the payload handled, or the error with its message)
\* is the one that the payload the function sent comes to; the stream is
\* never read twice, and not at all when the invocation raised.
C27_PayloadReadOnceAndUsed ==
    /\ preads =< 1
    /\ presponse.ev # "Invoked" => preads = 0
    /\ (ppc = "done" /\ presponse.ev = "Invoked") =>
          /\ preads = 1
          /\ payload_bytes = presponse
          /\ pout = lambda_invoke(presponse)

\* C27 witness: an invocation that ended in a function error has read the
\* stream once and raised the error with the message of the payload.
C27_Witness ==
    /\ ppc = "done"
    /\ presponse.ev = "Invoked"
    /\ presponse.ferr
    /\ presponse.pshape = "dict"
    /\ presponse.emsg # Missing
    /\ preads = 1
    /\ pout = lambda_function_error(presponse)

===========================================================================
